---- MODULE Spec2Model ----
(***************************************************************************)
(* A model of postgres-mcp-go: the database adapter (internal/db/db.go),   *)
(* the MCP server with its HTTP/SSE transport (internal/server/server.go)  *)
(* and the process entry point (cmd/postgres-mcp/main.go).                 *)
(*                                                                         *)
(* Seven specifications share the module:                                  *)
(*   SpecSetup     db.New and PostgresMCPServer.Setup (resource addresses) *)
(*   SpecResource  the resource handlers and the catalog they read         *)
(*   SpecQuery     the query tool handler and DB.ExecuteReadOnlyQuery      *)
(*   Spec          the process life cycle, the SSE registry, broadcastSSE  *)
(*                 and PostgresMCPServer.Close                             *)
(*   SpecHTTP      the serving phase: the /mcp handler, the SSE handlers   *)
(*                 and the stdio loop                                      *)
(*   SpecTools     the list_tables tool handler of the stand-alone main.go *)
(*   SpecOrder     concurrent calls of broadcastSSE and the SSE handlers   *)
(***************************************************************************)
EXTENDS Integers, Sequences, FiniteSets, TLC

VARIABLES
    \* ---- SpecSetup ----
    connStr,          \* per server instance: the parsed -database_url
    resourceBaseURL,  \* per instance: DB.resourceBaseURL (empty before db.New)
    resources,        \* per instance: resources registered by Setup, in order
    tableNames,       \* per instance: what DB.GetTableNames returned to Setup
    spc,              \* per instance: "new", "setup", "serving" or "exited"
    catalog,          \* the engine's catalog: schema -> table -> existence and columns
    ddl,              \* number of DDL statements other sessions have executed
    reads,            \* results of the resource reads served, in order
    \* ---- SpecQuery ----
    table,            \* committed rows of the table the statements act on
    qpc,              \* per call: position inside handler / ExecuteReadOnlyQuery
    qarg,             \* per call: the "sql" argument of the tool request
    sess,             \* per call: engine session of the call's transaction
    sent,             \* per call: statements sent to the engine, in order
    fetched,          \* per call: rows the engine returned to Queryx
    acc,              \* per call: the local variable result (rows scanned so far)
    execRes,          \* per call: what ExecuteReadOnlyQuery returned
    toolRes,          \* per call: what the tool handler returned
    steps,            \* per call: the steps of ExecuteReadOnlyQuery taken, with their outcome
    \* ---- Spec ----
    sseAddr,          \* the -sse_addr flag is set
    mainPc,           \* position of func main
    httpPc,           \* position of the goroutine that runs ServeHTTP
    httpServer,       \* s.httpServer has been assigned
    sawHTTPServer,    \* what Close read from s.httpServer
    inShutdown,       \* http.Server.Shutdown has been called
    sseClients,       \* s.sseClients: client ID -> connection owning the channel (0: no entry)
    mux,              \* s.sseClientsMux: its holder
    hpc,              \* per SSE connection: position inside handleSSE
    hid,              \* per SSE connection: its clientID (0 before it is drawn)
    ctxDone,          \* per SSE connection: r.Context() has been cancelled
    chanCloses,       \* per SSE connection: number of close(messageChan) executed
    inbox,            \* per SSE connection: message received, not yet written (0: "")
    written,          \* per SSE connection: events written to the response
    bpc,              \* per broadcaster: position inside broadcastSSE
    bmsg,             \* per broadcaster: the message being broadcast
    btodo,            \* per broadcaster: registry entries the range has still to visit
    bsent,            \* per broadcaster: connections the message was handed to
    bskip,            \* per broadcaster: connections skipped by the default case
    bparked,          \* per broadcaster: connections that were receiving when visited
    nextMsg,          \* number of the next broadcast message
    closeLog,         \* steps PostgresMCPServer.Close has performed, in order
    swept,            \* connections whose channel Close found in the registry
    dbCloses,         \* number of DB.Close calls
    \* ---- SpecHTTP ----
    post,             \* per /mcp handler: the request it served last and its outcome
    rejects,          \* number of requests the /mcp handler has refused
    stdioOut,         \* responses written to the stdio channel, in order
    missed,           \* per SSE connection: messages broadcast before it registered
    \* ---- SpecTools ----
    listed,           \* calls of the list_tables tool served: lookup and return values
    \* ---- SpecOrder ----
    lockOrder         \* the messages, in the order their broadcastSSE calls took the lock

setupVars == <<connStr, resourceBaseURL, resources, tableNames, spc, catalog, ddl, reads>>
queryVars == <<table, qpc, qarg, sess, sent, fetched, acc, execRes, toolRes, steps>>
sseVars   == <<sseAddr, mainPc, httpPc, httpServer, sawHTTPServer, inShutdown, sseClients,
               mux, hpc, hid, ctxDone, chanCloses, inbox, written, bpc, bmsg, btodo,
               bsent, bskip, bparked, nextMsg, closeLog, swept, dbCloses>>
httpVars  == <<post, rejects, stdioOut, missed>>
toolVars  == <<listed>>
orderVars == <<lockOrder>>
vars == <<setupVars, queryVars, sseVars, httpVars, toolVars, orderVars>>

\* ---------------------------------------------------------------------------
\* Bounds
\* ---------------------------------------------------------------------------
NumInstances == 2      \* server instances compared with each other
MaxBatch     == 2      \* statements in one client-supplied SQL text
NumCalls     == 2      \* concurrent invocations of the query tool
MaxRows      == 1      \* rows the table holds before any call
NumConns     == 2      \* event-stream connections
NumIDs       == 2      \* distinct values time.Now().UnixNano() yields
NumBcasters  == 1      \* concurrent calls of broadcastSSE
MaxMsgs      == 2      \* messages broadcast
MaxIdleEvents == 1     \* keep-alives and empty events written per connection
MaxDDL       == 2      \* DDL statements other sessions execute while the server runs
MaxReads     == 2      \* resource reads served
MaxRejects   == 1      \* requests the /mcp handler refuses
MaxListCalls == 2      \* calls of the list_tables tool served
NumPosters   == 2      \* concurrent calls of broadcastSSE whose order is compared

Instances == 1..NumInstances
Calls     == 1..NumCalls

Range(s) == {s[i] : i \in 1..Len(s)}

\* ===========================================================================
\* SpecSetup: db.New and PostgresMCPServer.Setup
\* ===========================================================================
schemaPath == "schema"

NoCred == "-"    \* component absent from the connection string

Usernames == {"u", "v"}
Passwords == {"p", "q"}
Hosts     == {"host"}
Paths     == {"/db"}
Schemes   == {"postgresql", "postgres"}
Queries   == {"sslmode=disable"}

\* url.Parse: the components of a connection string
\* scheme://[user[:password]@]host/path[?query]
ConnStrings ==
    { [scheme |-> s, user |-> u, password |-> p, host |-> h, path |-> d, query |-> q] :
        s \in Schemes, u \in Usernames \cup {NoCred},
        p \in Passwords \cup {NoCred}, h \in Hosts, d \in Paths,
        q \in Queries \cup {NoCred} }

WellFormedConn(c) == c.user = NoCred => c.password = NoCred

\* (*Userinfo).Username: the empty string for a nil Userinfo
Username(c) == IF c.user = NoCred THEN "" ELSE c.user

\* (*URL).String for a URL whose User field is not nil:
\* scheme "://" userinfo "@" host path ["?" RawQuery],
\* userinfo = username [":" password]
URLString(u) ==
    <<u.scheme, "://">>
    \o (IF u.username # "" THEN <<u.username>> ELSE <<>>)
    \o (IF u.passwordSet THEN <<":", u.password>> ELSE <<>>)
    \o <<"@">>
    \o <<u.host, u.path>>
    \o (IF u.rawQuery # "" THEN <<"?", u.rawQuery>> ELSE <<>>)

\* (*URL).RawQuery: the empty string without a query part
RawQuery(c) == IF c.query = NoCred THEN "" ELSE c.query

\* db.New, lines 26-29 and 39: copy the URL, rewrite the scheme, replace User
\* by url.User(username) (a Userinfo with that username and no password);
\* every other component of the copy stays as parsed
ResourceBaseURLOf(c) ==
    URLString([scheme |-> "postgres", username |-> Username(c),
               passwordSet |-> FALSE, password |-> "",
               host |-> c.host, path |-> c.path, rawQuery |-> RawQuery(c)])

\* Setup, line 60: fmt.Sprintf("%s/%s/%s", base, tableName, schemaPath)
ResourceURI(base, tableName) == base \o <<"/", tableName, "/", schemaPath>>

\* ---- the engine's catalog --------------------------------------------------
DefaultSchema == "public"
Schemas == {"public", "other"}
Tables  == {"users", "orders"}

\* one row of information_schema.columns
Column(n, t) == [column_name |-> n, data_type |-> t]
ColumnLists == { <<Column("id", "integer")>>,
                 <<Column("id", "integer"), Column("name", "text")>> }

NoTable == [exists |-> FALSE, columns |-> <<>>]
TableOf(cols) == [exists |-> TRUE, columns |-> cols]

\* catalogs the server may find at startup: any set of tables in the default
\* schema, none elsewhere
InitialCatalogs ==
    { [s \in Schemas |-> [t \in Tables |->
          IF s = DefaultSchema /\ t \in S THEN TableOf(<<Column("id", "integer")>>)
          ELSE NoTable]] : S \in SUBSET Tables }

\* the orders in which the engine may return the rows of a set (a SELECT
\* without ORDER BY)
Enumerations(S) ==
    { f \in [1..Cardinality(S) -> S] :
        \A a, b \in 1..Cardinality(S) : f[a] = f[b] => a = b }

\* DB.GetTableNames: SELECT table_name FROM information_schema.tables
\* WHERE table_schema = 'public'
GetTableNames(cat) == Enumerations({t \in Tables : cat[DefaultSchema][t].exists})

\* the rows of information_schema.columns WHERE table_name = $1: the columns
\* of every table of that name, whatever its schema
RECURSIVE RowsOf(_, _, _, _)
RowsOf(cat, tableName, order, i) ==
    IF i > Len(order) THEN <<>>
    ELSE cat[order[i]][tableName].columns \o RowsOf(cat, tableName, order, i + 1)

ColumnRows(cat, tableName) ==
    { RowsOf(cat, tableName, order, 1) :
        order \in Enumerations({s \in Schemas : cat[s][tableName].exists}) }

\* sqlx Select into "var columns []TableColumn": one element is appended per
\* row, so the slice stays nil when the query returns no row
SelectInto(rows) == [isNil |-> rows = <<>>, elems |-> rows]

\* DB.GetTableSchema: the values it may return without error
GetTableSchema(cat, tableName) == {SelectInto(rows) : rows \in ColumnRows(cat, tableName)}

\* encoding/json on a TableColumn: the struct has db tags only, so the keys
\* are the field names
MarshalColumn(c) ==
    <<"{", "ColumnName", ":", c.column_name, ",", "DataType", ":", c.data_type, "}">>

RECURSIVE MarshalElems(_, _)
MarshalElems(elems, i) ==
    IF i > Len(elems) THEN <<>>
    ELSE (IF i > 1 THEN <<",">> ELSE <<>>)
         \o MarshalColumn(elems[i]) \o MarshalElems(elems, i + 1)

\* json.MarshalIndent of a []TableColumn: null for a nil slice, an array otherwise
MarshalIndent(slice) ==
    IF slice.isNil THEN <<"null">>
    ELSE <<"[">> \o MarshalElems(slice.elems, 1) \o <<"]">>

\* ---- Setup ------------------------------------------------------------------
\* a variant in which every handler reads the loop variable after the loop
CapturedTableShared(names, k) == names[Len(names)]

\* Setup, line 72: tableNameCopy := tableName
CapturedTable(names, k) == names[k]

\* Setup, lines 58-97: one resource per enumerated table, in enumeration order
SetupResources(base, names) ==
    [k \in 1..Len(names) |->
        [uri |-> ResourceURI(base, names[k]),
         name |-> <<"\"", names[k], "\" database schema">>,
         table |-> CapturedTable(names, k)]]

\* db.New
New(i) ==
    /\ spc[i] = "new"
    /\ resourceBaseURL' = [resourceBaseURL EXCEPT ![i] = ResourceBaseURLOf(connStr[i])]
    /\ spc' = [spc EXCEPT ![i] = "setup"]
    /\ UNCHANGED <<connStr, resources, tableNames, catalog, ddl, reads>>

\* a variant in which Setup is run again while the server is serving
SetupCalledAgain(i) == spc[i] \in {"setup", "serving"}

\* main.go 39: Setup is called once, between server.New and Serve
SetupCalled(i) == spc[i] = "setup"

\* PostgresMCPServer.Setup: the tables are enumerated and one resource is
\* registered for each; an error of GetTableNames is returned and main exits
Setup(i, ok) ==
    /\ SetupCalled(i)
    /\ IF ok
       THEN \E names \in GetTableNames(catalog) :
               /\ tableNames' = [tableNames EXCEPT ![i] = names]
               /\ resources' = [resources EXCEPT ![i] =
                                   SetupResources(resourceBaseURL[i], names)]
               /\ spc' = [spc EXCEPT ![i] = "serving"]
       ELSE /\ spc' = [spc EXCEPT ![i] = "exited"]
            /\ UNCHANGED <<tableNames, resources>>
    /\ UNCHANGED <<connStr, resourceBaseURL, catalog, ddl, reads>>

\* ===========================================================================
\* SpecQuery: the query tool handler and DB.ExecuteReadOnlyQuery
\* ===========================================================================
\* rows of the table before any call
InitialTable == [i \in 1..MaxRows |-> i]

\* One client-supplied SQL text: a batch of statements, sent verbatim.
StmtKinds == {"SELECT", "DELETE", "COMMIT"}
Batches == UNION {[1..n -> StmtKinds] : n \in 1..MaxBatch}
HasWrite(b) == \E i \in 1..Len(b) : b[i] = "DELETE"

\* request.Params.Arguments["sql"]: absent, present but not a string, or a string
Args == {[kind |-> "absent", sql |-> <<>>], [kind |-> "number", sql |-> <<>>]}
        \cup {[kind |-> "string", sql |-> b] : b \in Batches}

SetReadOnlySQL == <<"SET TRANSACTION READ ONLY">>

NoErr == <<>>

\* The engine session behind one *sqlx.Tx.  status: "none" before Beginx,
\* "intrans" in the transaction block, "failed" in an aborted block, "idle"
\* outside any block, "closed" once the Tx is done.  outcome: how the
\* transaction begun by Beginx ended.
NoSession == [status |-> "none", readOnly |-> FALSE, dirty |-> FALSE,
              view |-> <<>>, outcome |-> "none"]

\* what a statement of the session reads: its own uncommitted rows, if any
CurView(st) == IF st.dirty THEN st.view ELSE st.table

\* The engine runs one statement of a batch.  st carries the session, the
\* committed table, the first result set and the first error.
\*  - a write in a READ ONLY transaction block is refused and aborts the block;
\*  - COMMIT ends the block begun by Beginx and makes its rows durable; the
\*    statements after it run in an implicit read-write transaction that is
\*    committed at the end of the batch.
RunStmt(st, kind) ==
    CASE kind = "SELECT" ->
            IF st.gotRows THEN st
            ELSE [st EXCEPT !.gotRows = TRUE, !.rows = CurView(st)]
      [] kind = "DELETE" ->
            IF st.status = "intrans" /\ st.readOnly
            THEN [st EXCEPT !.status = "failed", !.dirty = FALSE, !.view = <<>>,
                            !.err = <<"cannot execute DELETE in a read-only transaction">>,
                            !.errAfterRows = st.gotRows]
            ELSE [st EXCEPT !.dirty = TRUE, !.view = <<>>]
      [] kind = "COMMIT" ->
            [st EXCEPT !.table = CurView(st), !.dirty = FALSE, !.view = <<>>,
                       !.outcome = IF st.status = "intrans" THEN "committed" ELSE st.outcome,
                       !.status = "idle"]

RECURSIVE RunStmts(_, _, _)
RunStmts(st, b, i) ==
    IF i > Len(b) \/ st.err # NoErr THEN st
    ELSE RunStmts(RunStmt(st, b[i]), b, i + 1)

\* tx.Queryx(query): the whole batch goes to the engine in one message.  At
\* the end of the message an implicit transaction is committed; the block
\* begun by Beginx stays open.
RunBatch(s, tbl, b) ==
    LET st0 == [status |-> s.status, readOnly |-> s.readOnly, dirty |-> s.dirty,
                view |-> s.view, outcome |-> s.outcome, table |-> tbl,
                gotRows |-> FALSE, rows |-> <<>>, err |-> NoErr,
                errAfterRows |-> FALSE]
        st1 == RunStmts(st0, b, 1)
    IN IF st1.status = "idle" /\ st1.err = NoErr
       THEN [st1 EXCEPT !.table = CurView(st1), !.dirty = FALSE, !.view = <<>>]
       ELSE st1

SessionOf(st) == [status |-> st.status, readOnly |-> st.readOnly, dirty |-> st.dirty,
                  view |-> st.view, outcome |-> st.outcome]

\* a variant in which the error of tx.Rollback is not looked at
RollbackErrIgnored(s, ok) == NoErr

\* tx.Rollback: the driver reports an error when the round trip fails
\* (ok = FALSE) or when the session is no longer inside a transaction block.
RollbackErr(s, ok) ==
    IF s.status = "idle" THEN <<"unexpected transaction status idle">>
    ELSE IF ~ok THEN <<"connection error">>
    ELSE NoErr

\* tx.Rollback: the Tx is done whatever the driver reports; uncommitted rows
\* are discarded.
RollbackSession(s) ==
    [s EXCEPT !.status = "closed", !.dirty = FALSE, !.view = <<>>,
              !.outcome = IF s.outcome = "committed" THEN "committed" ELSE "rolledback"]

\* rows.MapScan: a row becomes a mapping of column name to value
MapScan(row) == [id |-> row]

\* fmt.Errorf("<prefix>: %w", err)
Errorf(prefix, err) == <<prefix, ": ">> \o err

NoResult == [ret |-> FALSE, rows |-> <<>>, isNil |-> TRUE, err |-> NoErr]
NoToolResult == [ret |-> FALSE, isError |-> FALSE, text |-> <<>>, handlerErr |-> NoErr]

\* mcp.NewToolResultError(text)
NewToolResultError(text) ==
    [ret |-> TRUE, isError |-> TRUE, text |-> <<text>>, handlerErr |-> NoErr]

\* mcp.NewToolResultErrorFromErr(text, err): "<text>: <err>"
NewToolResultErrorFromErr(text, err) ==
    [ret |-> TRUE, isError |-> TRUE, text |-> <<text, ": ">> \o err, handlerErr |-> NoErr]

\* json.MarshalIndent(result) followed by mcp.NewToolResultText
NewToolResultText(rows) ==
    [ret |-> TRUE, isError |-> FALSE, text |-> <<"json", rows>>, handlerErr |-> NoErr]

\* a variant that answers a failure like a success
HandlerResultSwallowed(res) == NewToolResultText(res.rows)

\* the query tool handler, lines 117-129: what it returns for the
\* (result, err) pair of ExecuteReadOnlyQuery
HandlerResult(res) ==
    IF res.err # NoErr
    THEN NewToolResultErrorFromErr("Failed to execute query", res.err)
    ELSE NewToolResultText(res.rows)

\* one step of ExecuteReadOnlyQuery and whether the call it makes succeeded
Step(name, ok) == [step |-> name, ok |-> ok]

\* the step is noted in the order the function takes it
Took(c, name, ok) == steps' = [steps EXCEPT ![c] = Append(@, Step(name, ok))]

\* one round trip to the engine: what was sent and whether the engine accepted it
Sent(op, sql, ok) == [op |-> op, sql |-> sql, ok |-> ok]

\* ExecuteReadOnlyQuery returns (nil, err) and the handler returns with it
ReturnErr(c, err) ==
    LET res == [ret |-> TRUE, rows |-> <<>>, isNil |-> TRUE, err |-> err]
    IN /\ execRes' = [execRes EXCEPT ![c] = res]
       /\ toolRes' = [toolRes EXCEPT ![c] = HandlerResult(res)]
       /\ qpc' = [qpc EXCEPT ![c] = "done"]

\* ExecuteReadOnlyQuery returns (result, nil) and the handler returns with it
ReturnRows(c, rows) ==
    LET res == [ret |-> TRUE, rows |-> rows, isNil |-> FALSE, err |-> NoErr]
    IN /\ execRes' = [execRes EXCEPT ![c] = res]
       /\ toolRes' = [toolRes EXCEPT ![c] = HandlerResult(res)]
       /\ qpc' = [qpc EXCEPT ![c] = "done"]

\* tx.Rollback() on an error path (its own error is dropped)
AbortTx(c, s) ==
    /\ sess' = [sess EXCEPT ![c] = RollbackSession(s)]
    /\ sent' = [sent EXCEPT ![c] = Append(@, Sent("rollback", <<>>, TRUE))]

\* a variant that only tests the presence of the argument
SQLArgPresent(a) == a.kind # "absent"

\* the type assertion of line 111
SQLArgOk(a) == a.kind = "string"

\* server.go 109-114: the handler reads the sql argument
QueryToolCall(c, a) ==
    /\ qpc[c] = "idle"
    /\ qarg' = [qarg EXCEPT ![c] = a]
    /\ IF SQLArgOk(a)
       THEN /\ qpc' = [qpc EXCEPT ![c] = "begin"]
            /\ UNCHANGED toolRes
       ELSE /\ toolRes' = [toolRes EXCEPT ![c] = NewToolResultError("SQL query is required")]
            /\ qpc' = [qpc EXCEPT ![c] = "done"]
    /\ UNCHANGED <<table, sess, sent, fetched, acc, execRes, steps>>

\* db.go 84-87: d.conn.Beginx()
Beginx(c, ok) ==
    /\ qpc[c] = "begin"
    /\ sent' = [sent EXCEPT ![c] = Append(@, Sent("begin", <<>>, ok))]
    /\ IF ok
       THEN /\ sess' = [sess EXCEPT ![c] = [NoSession EXCEPT !.status = "intrans",
                                                             !.outcome = "open"]]
            /\ qpc' = [qpc EXCEPT ![c] = "setro"]
            /\ UNCHANGED <<execRes, toolRes>>
       ELSE /\ ReturnErr(c, Errorf("failed to begin transaction", <<"connection error">>))
            /\ UNCHANGED sess
    /\ Took(c, "begin", ok)
    /\ UNCHANGED <<table, qarg, fetched, acc>>

\* a variant that drops the error check of lines 91-94
AfterDirectiveUnchecked(ok) == "query"

\* where ExecuteReadOnlyQuery goes after the directive, lines 91-94
AfterDirective(ok) == IF ok THEN "query" ELSE "return"

\* db.go 90-94: tx.Exec("SET TRANSACTION READ ONLY")
SetReadOnly(c, ok) ==
    /\ qpc[c] = "setro"
    /\ IF AfterDirective(ok) = "query"
       THEN /\ sess' = [sess EXCEPT ![c].readOnly = ok]
            /\ sent' = [sent EXCEPT ![c] = Append(@, Sent("exec", SetReadOnlySQL, ok))]
            /\ qpc' = [qpc EXCEPT ![c] = "query"]
            /\ UNCHANGED <<execRes, toolRes>>
       ELSE /\ sess' = [sess EXCEPT ![c] = RollbackSession(@)]
            /\ sent' = [sent EXCEPT ![c] = @ \o <<Sent("exec", SetReadOnlySQL, ok),
                                                  Sent("rollback", <<>>, TRUE)>>]
            /\ ReturnErr(c, Errorf("failed to set transaction to read-only",
                                   <<"connection error">>))
    /\ Took(c, "directive", ok)
    /\ UNCHANGED <<table, qarg, fetched, acc>>

\* db.go 97-102: tx.Queryx(query)
Queryx(c) ==
    /\ qpc[c] = "query"
    /\ LET st == RunBatch(sess[c], table, qarg[c].sql)
           q  == Sent("query", qarg[c].sql, st.err = NoErr)
       IN /\ table' = st.table
          /\ IF st.err # NoErr /\ ~st.errAfterRows
             THEN /\ sess' = [sess EXCEPT ![c] = RollbackSession(SessionOf(st))]
                  /\ sent' = [sent EXCEPT ![c] = @ \o <<q, Sent("rollback", <<>>, TRUE)>>]
                  /\ ReturnErr(c, Errorf("failed to execute query", st.err))
                  /\ UNCHANGED fetched
             ELSE /\ sess' = [sess EXCEPT ![c] = SessionOf(st)]
                  /\ sent' = [sent EXCEPT ![c] = Append(@, q)]
                  /\ fetched' = [fetched EXCEPT ![c] = [rows |-> st.rows, err |-> st.err]]
                  /\ qpc' = [qpc EXCEPT ![c] = "rows"]
                  /\ UNCHANGED <<execRes, toolRes>>
          /\ Took(c, "query", st.err = NoErr \/ st.errAfterRows)
    /\ UNCHANGED <<qarg, acc>>

\* db.go 106-113: one turn of the loop, rows.Next() is true
ScanRow(c, ok) ==
    /\ qpc[c] = "rows"
    /\ Len(acc[c]) < Len(fetched[c].rows)
    /\ IF ok
       THEN /\ acc' = [acc EXCEPT ![c] = Append(@, MapScan(fetched[c].rows[Len(@) + 1]))]
            /\ UNCHANGED <<sess, sent, execRes, toolRes, qpc>>
       ELSE /\ AbortTx(c, sess[c])
            /\ ReturnErr(c, Errorf("failed to scan row", <<"scan error">>))
            /\ UNCHANGED acc
    /\ Took(c, "scan", ok)
    /\ UNCHANGED <<table, qarg, fetched>>

\* db.go 106, 116-119: rows.Next() is false, rows.Err() is consulted
RowsErr(c, ok) ==
    /\ qpc[c] = "rows"
    /\ Len(acc[c]) = Len(fetched[c].rows)
    /\ LET err == IF fetched[c].err # NoErr THEN fetched[c].err
                  ELSE IF ~ok THEN <<"connection error">> ELSE NoErr
       IN IF err # NoErr
          THEN /\ AbortTx(c, sess[c])
               /\ ReturnErr(c, Errorf("error iterating over rows", err))
          ELSE /\ qpc' = [qpc EXCEPT ![c] = "rollback"]
               /\ UNCHANGED <<sess, sent, execRes, toolRes>>
    /\ Took(c, "iterate", fetched[c].err = NoErr /\ ok)
    /\ UNCHANGED <<table, qarg, fetched, acc>>

\* db.go 122-126: the final tx.Rollback() and the return
FinalRollback(c, ok) ==
    /\ qpc[c] = "rollback"
    /\ AbortTx(c, sess[c])
    /\ LET err == RollbackErr(sess[c], ok)
       IN IF err # NoErr
          THEN ReturnErr(c, Errorf("failed to rollback transaction", err))
          ELSE ReturnRows(c, acc[c])
    /\ Took(c, "rollback", ok /\ sess[c].status # "idle")
    /\ UNCHANGED <<table, qarg, fetched, acc>>

\* the response has been written: the handler's frame is gone
Respond(c) ==
    /\ qpc[c] = "done"
    /\ qpc' = [qpc EXCEPT ![c] = "idle"]
    /\ qarg' = [qarg EXCEPT ![c] = [kind |-> "absent", sql |-> <<>>]]
    /\ sess' = [sess EXCEPT ![c] = NoSession]
    /\ sent' = [sent EXCEPT ![c] = <<>>]
    /\ fetched' = [fetched EXCEPT ![c] = [rows |-> <<>>, err |-> NoErr]]
    /\ acc' = [acc EXCEPT ![c] = <<>>]
    /\ execRes' = [execRes EXCEPT ![c] = NoResult]
    /\ toolRes' = [toolRes EXCEPT ![c] = NoToolResult]
    /\ steps' = [steps EXCEPT ![c] = <<>>]
    /\ UNCHANGED table

\* ===========================================================================
\* SpecResource: the resource handlers and the catalog they read
\* ===========================================================================
\* what a resource handler returns: the contents, or an error
ResourceHandler(res, schema, ok) ==
    IF ok
    THEN [uri |-> res.uri, mime |-> "application/json",
          text |-> MarshalIndent(schema), err |-> NoErr]
    ELSE [uri |-> <<>>, mime |-> "", text |-> <<>>,
          err |-> <<"failed to get schema for table ", res.table, ": ">>
                  \o Errorf("failed to get table schema", <<"connection error">>)]

\* server.go 75-96: a client reads resource k of instance i; the handler calls
\* GetTableSchema with the table it captured, marshals the columns and
\* returns them as the text of the resource.  The entry of reads also notes
\* the table looked up and whether the default schema still held it.
ReadResource(i, k, ok) ==
    /\ spc[i] = "serving"
    /\ k \in 1..Len(resources[i])
    /\ Len(reads) < MaxReads
    /\ \E schema \in GetTableSchema(catalog, resources[i][k].table) :
          reads' = Append(reads, [inst |-> i, k |-> k, ok |-> ok,
                                  table |-> resources[i][k].table,
                                  dropped |-> ~catalog[DefaultSchema][resources[i][k].table].exists,
                                  res |-> ResourceHandler(resources[i][k], schema, ok)])
    /\ UNCHANGED <<connStr, resourceBaseURL, resources, tableNames, spc, catalog, ddl>>

\* another session creates a table
CreateTable(s, t, cols) ==
    /\ ddl < MaxDDL
    /\ ~catalog[s][t].exists
    /\ catalog' = [catalog EXCEPT ![s][t] = TableOf(cols)]
    /\ ddl' = ddl + 1
    /\ UNCHANGED <<connStr, resourceBaseURL, resources, tableNames, spc, reads>>

\* another session drops a table
DropTable(s, t) ==
    /\ ddl < MaxDDL
    /\ catalog[s][t].exists
    /\ catalog' = [catalog EXCEPT ![s][t] = NoTable]
    /\ ddl' = ddl + 1
    /\ UNCHANGED <<connStr, resourceBaseURL, resources, tableNames, spc, reads>>

\* another session adds or drops columns of a table
AlterTable(s, t, cols) ==
    /\ ddl < MaxDDL
    /\ catalog[s][t].exists
    /\ catalog[s][t].columns # cols
    /\ catalog' = [catalog EXCEPT ![s][t] = TableOf(cols)]
    /\ ddl' = ddl + 1
    /\ UNCHANGED <<connStr, resourceBaseURL, resources, tableNames, spc, reads>>

\* ===========================================================================
\* SpecTools: the list_tables tool handler (main.go of the repository root)
\* ===========================================================================
\* db.go 54-62: what GetTableNames returns, (tableNames, nil) or
\* (nil, "failed to get table names: ...")
TableNamesResult(names, ok) ==
    IF ok THEN [names |-> names, err |-> NoErr]
    ELSE [names |-> <<>>, err |-> Errorf("failed to get table names", <<"connection error">>)]

\* a *mcp.CallToolResult: the nil pointer, or a pointer to a result
Nil == <<>>
Ptr(toolResult) == <<toolResult>>

\* main.go 52-63: what the handler returns for the (result, err) pair of
\* GetTableNames; json.MarshalIndent of a []string does not fail
ListTablesHandler(r) ==
    IF r.err # NoErr
    THEN [result |-> Nil, err |-> NoErr]
    ELSE [result |-> Ptr(NewToolResultText(r.names)), err |-> NoErr]

\* main.go 50-64: a client calls the list_tables tool
ListTables(ok) ==
    /\ Len(listed) < MaxListCalls
    /\ \E names \in GetTableNames(catalog) :
          LET r == TableNamesResult(names, ok)
          IN listed' = Append(listed, [lookup |-> r, ret |-> ListTablesHandler(r)])
    /\ UNCHANGED setupVars

\* ===========================================================================
\* Spec: func main, ServeHTTP, handleSSE, broadcastSSE, PostgresMCPServer.Close
\* ===========================================================================
Conns    == 1..NumConns
IDs      == 1..NumIDs
Bcasters == 1..NumBcasters

\* holders of s.sseClientsMux
Free        == <<"free">>
ByConn(h)   == <<"handleSSE", h>>
ByBcast(b)  == <<"broadcastSSE", b>>
ByClose     == <<"Close">>

\* the process has not exited: goroutines take steps
Alive == mainPc # "exited"

\* the listener accepts connections
Listening == httpPc = "listening"

\* the registry entries, s.sseClients
Registered == {id \in IDs : sseClients[id] # 0}

\* a variant of the initial event that leaves the client ID out
ConnectedNoID(id) == [kind |-> "connected", v |-> 0]

\* events written to an event-stream response
Connected(id) == [kind |-> "connected", v |-> id]
Data(msg)     == [kind |-> "data", v |-> msg]
KeepAlive     == [kind |-> "ping", v |-> 0]
IdleEvents(h) == Cardinality({i \in 1..Len(written[h]) :
                     written[h][i] \in {KeepAlive, Data(0)}})

\* handleSSE is blocked in the select of line 228 with no case ready: only
\* then does a send on the unbuffered messageChan find a receiver
Parked(h) == hpc[h] = "select" /\ ~ctxDone[h] /\ chanCloses[h] = 0

\* ---- func main ---------------------------------------------------------------
\* main.go 39-42: s.Setup() fails and main calls os.Exit(1)
MainSetup(ok) ==
    /\ mainPc = "setup"
    /\ mainPc' = IF ok THEN "spawn" ELSE "exited"
    /\ UNCHANGED <<httpPc, httpServer, sawHTTPServer, inShutdown, sseClients, mux, hpc,
                   hid, ctxDone, chanCloses, inbox, written, bpc, bmsg, btodo, bsent,
                   bskip, bparked, nextMsg, closeLog, swept, dbCloses, sseAddr>>

\* main.go 48-57: the goroutine that runs ServeHTTP is started when -sse_addr is set
MainSpawn ==
    /\ mainPc = "spawn"
    /\ mainPc' = "serve"
    /\ httpPc' = IF sseAddr THEN "start" ELSE "none"
    /\ UNCHANGED <<httpServer, sawHTTPServer, inShutdown, sseClients, mux, hpc,
                   hid, ctxDone, chanCloses, inbox, written, bpc, bmsg, btodo, bsent,
                   bskip, bparked, nextMsg, closeLog, swept, dbCloses, sseAddr>>

\* main.go 60-64: s.Serve() returns; on an error main calls os.Exit(1), otherwise
\* main returns and the deferred s.Close() runs
MainServeReturns(ok) ==
    /\ mainPc = "serve"
    /\ mainPc' = IF ok THEN "close" ELSE "exited"
    /\ UNCHANGED <<httpPc, httpServer, sawHTTPServer, inShutdown, sseClients, mux, hpc,
                   hid, ctxDone, chanCloses, inbox, written, bpc, bmsg, btodo, bsent,
                   bskip, bparked, nextMsg, closeLog, swept, dbCloses, sseAddr>>

\* main returns after the deferred Close: the process exits
MainExit ==
    /\ mainPc = "closed"
    /\ mainPc' = "exited"
    /\ UNCHANGED <<httpPc, httpServer, sawHTTPServer, inShutdown, sseClients, mux, hpc,
                   hid, ctxDone, chanCloses, inbox, written, bpc, bmsg, btodo, bsent,
                   bskip, bparked, nextMsg, closeLog, swept, dbCloses, sseAddr>>

\* ---- ServeHTTP ---------------------------------------------------------------
\* server.go 185-188: s.httpServer = &http.Server{...}
HTTPAssign ==
    /\ Alive /\ httpPc = "start"
    /\ httpServer' = TRUE
    /\ httpPc' = "assigned"
    /\ UNCHANGED <<mainPc, sawHTTPServer, inShutdown, sseClients, mux, hpc,
                   hid, ctxDone, chanCloses, inbox, written, bpc, bmsg, btodo, bsent,
                   bskip, bparked, nextMsg, closeLog, swept, dbCloses, sseAddr>>

\* server.go 191: ListenAndServe.  After Shutdown it returns ErrServerClosed
\* at once; a bind failure makes the goroutine call os.Exit(1) (main.go 52-55).
HTTPListen(ok) ==
    /\ Alive /\ httpPc = "assigned"
    /\ IF inShutdown
       THEN httpPc' = "stopped" /\ UNCHANGED mainPc
       ELSE IF ok THEN httpPc' = "listening" /\ UNCHANGED mainPc
            ELSE httpPc' = "stopped" /\ mainPc' = "exited"
    /\ UNCHANGED <<httpServer, sawHTTPServer, inShutdown, sseClients, mux, hpc,
                   hid, ctxDone, chanCloses, inbox, written, bpc, bmsg, btodo, bsent,
                   bskip, bparked, nextMsg, closeLog, swept, dbCloses, sseAddr>>

\* ---- handleSSE ---------------------------------------------------------------
\* a client connects to /sse: the HTTP server starts handleSSE
SSEConnect(h) ==
    /\ Alive /\ Listening
    /\ hpc[h] = "none"
    /\ hpc' = [hpc EXCEPT ![h] = "start"]
    /\ UNCHANGED <<mainPc, httpPc, httpServer, sawHTTPServer, inShutdown, sseClients, mux,
                   hid, ctxDone, chanCloses, inbox, written, bpc, bmsg, btodo, bsent,
                   bskip, bparked, nextMsg, closeLog, swept, dbCloses, sseAddr>>

\* the client goes away: r.Context() is cancelled
ClientDisconnect(h) ==
    /\ Alive
    /\ hpc[h] \in {"start", "hello", "select", "write", "ping"}
    /\ ~ctxDone[h]
    /\ ctxDone' = [ctxDone EXCEPT ![h] = TRUE]
    /\ UNCHANGED <<mainPc, httpPc, httpServer, sawHTTPServer, inShutdown, sseClients, mux,
                   hpc, hid, chanCloses, inbox, written, bpc, bmsg, btodo, bsent,
                   bskip, bparked, nextMsg, closeLog, swept, dbCloses, sseAddr>>

\* clock values time.Now().UnixNano() may return at line 203: not below a
\* value already read
ClockValues == {id \in IDs : \A g \in Conns : hid[g] <= id}

\* server.go 203-211: clientID, messageChan, registration under the lock
SSERegister(h, id) ==
    /\ Alive
    /\ hpc[h] = "start"
    /\ id \in ClockValues
    /\ mux = Free
    /\ hid' = [hid EXCEPT ![h] = id]
    /\ sseClients' = [sseClients EXCEPT ![id] = h]
    /\ hpc' = [hpc EXCEPT ![h] = "hello"]
    /\ UNCHANGED <<mainPc, httpPc, httpServer, sawHTTPServer, inShutdown, mux,
                   ctxDone, chanCloses, inbox, written, bpc, bmsg, btodo, bsent,
                   bskip, bparked, nextMsg, closeLog, swept, dbCloses, sseAddr>>

\* server.go 222-223: the initial connection message
SSEHello(h) ==
    /\ Alive
    /\ hpc[h] = "hello"
    /\ written' = [written EXCEPT ![h] = Append(@, Connected(hid[h]))]
    /\ hpc' = [hpc EXCEPT ![h] = "select"]
    /\ UNCHANGED <<mainPc, httpPc, httpServer, sawHTTPServer, inShutdown, sseClients, mux,
                   hid, ctxDone, chanCloses, inbox, bpc, bmsg, btodo, bsent,
                   bskip, bparked, nextMsg, closeLog, swept, dbCloses, sseAddr>>

\* server.go 232: the receive case of the select on a closed messageChan
\* yields the zero value at once
SSERecvClosed(h) ==
    /\ Alive
    /\ hpc[h] = "select"
    /\ chanCloses[h] > 0
    /\ IdleEvents(h) < MaxIdleEvents
    /\ inbox' = [inbox EXCEPT ![h] = 0]
    /\ hpc' = [hpc EXCEPT ![h] = "write"]
    /\ UNCHANGED <<mainPc, httpPc, httpServer, sawHTTPServer, inShutdown, sseClients, mux,
                   hid, ctxDone, chanCloses, written, bpc, bmsg, btodo, bsent,
                   bskip, bparked, nextMsg, closeLog, swept, dbCloses, sseAddr>>

\* server.go 233-235: the received message is written and flushed
SSEWrite(h) ==
    /\ Alive
    /\ hpc[h] = "write"
    /\ written' = [written EXCEPT ![h] = Append(@, Data(inbox[h]))]
    /\ inbox' = [inbox EXCEPT ![h] = 0]
    /\ hpc' = [hpc EXCEPT ![h] = "select"]
    /\ UNCHANGED <<mainPc, httpPc, httpServer, sawHTTPServer, inShutdown, sseClients, mux,
                   hid, ctxDone, chanCloses, bpc, bmsg, btodo, bsent,
                   bskip, bparked, nextMsg, closeLog, swept, dbCloses, sseAddr>>

\* server.go 236: the 30 s timer of the select fires
SSETimer(h) ==
    /\ Alive
    /\ hpc[h] = "select"
    /\ IdleEvents(h) < MaxIdleEvents
    /\ hpc' = [hpc EXCEPT ![h] = "ping"]
    /\ UNCHANGED <<mainPc, httpPc, httpServer, sawHTTPServer, inShutdown, sseClients, mux,
                   hid, ctxDone, chanCloses, inbox, written, bpc, bmsg, btodo, bsent,
                   bskip, bparked, nextMsg, closeLog, swept, dbCloses, sseAddr>>

\* server.go 237-239: the keep-alive comment is written and flushed
SSEPing(h) ==
    /\ Alive
    /\ hpc[h] = "ping"
    /\ written' = [written EXCEPT ![h] = Append(@, KeepAlive)]
    /\ hpc' = [hpc EXCEPT ![h] = "select"]
    /\ UNCHANGED <<mainPc, httpPc, httpServer, sawHTTPServer, inShutdown, sseClients, mux,
                   hid, ctxDone, chanCloses, inbox, bpc, bmsg, btodo, bsent,
                   bskip, bparked, nextMsg, closeLog, swept, dbCloses, sseAddr>>

\* close(ch) on a channel closed before panics
ClosePanics(h) == chanCloses[h] > 0

\* server.go 229-231 and 214-219: the ctx.Done() case returns and the deferred
\* function runs: lock, delete(s.sseClients, clientID), close(messageChan),
\* unlock.  A panic in close leaves the function before the unlock.
SSEDeferred(h) ==
    /\ Alive
    /\ hpc[h] = "select"
    /\ ctxDone[h]
    /\ mux = Free
    /\ sseClients' = [sseClients EXCEPT ![hid[h]] = 0]
    /\ chanCloses' = [chanCloses EXCEPT ![h] = @ + 1]
    /\ IF ClosePanics(h)
       THEN mux' = ByConn(h) /\ hpc' = [hpc EXCEPT ![h] = "panicked"]
       ELSE mux' = Free /\ hpc' = [hpc EXCEPT ![h] = "exited"]
    /\ UNCHANGED <<mainPc, httpPc, httpServer, sawHTTPServer, inShutdown,
                   hid, ctxDone, inbox, written, bpc, bmsg, btodo, bsent,
                   bskip, bparked, nextMsg, closeLog, swept, dbCloses, sseAddr>>

\* ---- broadcastSSE ------------------------------------------------------------
\* a variant that broadcasts an empty message in place of the response
ResponseJSONEmpty(response) == 0

\* server.go 172-173: string(responseJSON), the JSON text of the response;
\* responses are numbered and a message is named by the number of its response
ResponseJSON(response) == response

\* server.go 164-173: a request POSTed to /mcp has been answered and its
\* response is handed to broadcastSSE
BroadcastCall(b) ==
    /\ Alive /\ Listening
    /\ bpc[b] = "idle"
    /\ nextMsg <= MaxMsgs
    /\ bmsg' = [bmsg EXCEPT ![b] = ResponseJSON(nextMsg)]
    /\ nextMsg' = nextMsg + 1
    /\ bpc' = [bpc EXCEPT ![b] = "lock"]
    /\ bsent' = [bsent EXCEPT ![b] = {}]
    /\ bskip' = [bskip EXCEPT ![b] = {}]
    /\ bparked' = [bparked EXCEPT ![b] = {}]
    /\ UNCHANGED <<mainPc, httpPc, httpServer, sawHTTPServer, inShutdown, sseClients, mux,
                   hpc, hid, ctxDone, chanCloses, inbox, written, btodo,
                   closeLog, swept, dbCloses, sseAddr>>

\* server.go 246-249: the lock is taken and the range over s.sseClients begins
BroadcastLock(b) ==
    /\ Alive
    /\ bpc[b] = "lock"
    /\ mux = Free
    /\ mux' = ByBcast(b)
    /\ btodo' = [btodo EXCEPT ![b] = Registered]
    /\ bpc' = [bpc EXCEPT ![b] = "range"]
    /\ UNCHANGED <<mainPc, httpPc, httpServer, sawHTTPServer, inShutdown, sseClients,
                   hpc, hid, ctxDone, chanCloses, inbox, written, bmsg, bsent,
                   bskip, bparked, nextMsg, closeLog, swept, dbCloses, sseAddr>>

\* a variant without the default case: the send waits for the receiver
TrySendBlocking(h) == IF Parked(h) THEN "sent" ELSE "wait"

\* server.go 251-255: select { case clientChan <- message: default: }
\* A send on a closed channel panics, with or without a default case.
TrySend(h) ==
    IF chanCloses[h] > 0 THEN "panic"
    ELSE IF Parked(h) THEN "sent" ELSE "skipped"

\* a variant of the range that comes back to the entries it has visited
RangeRestKept(todo, id) == todo

\* server.go 249: range s.sseClients visits every entry once
RangeRest(todo, id) == todo \ {id}

\* server.go 249-256: one turn of the range loop, for the entry of client ID id.
\* A panic of the send ends the call; the deferred Unlock still runs.
BroadcastSend(b, id) ==
    /\ Alive
    /\ bpc[b] = "range"
    /\ id \in btodo[b]
    /\ LET h == sseClients[id]
       IN /\ TrySend(h) \in {"sent", "skipped", "panic"}
          /\ IF TrySend(h) = "sent"
             THEN /\ inbox' = [inbox EXCEPT ![h] = bmsg[b]]
                  /\ hpc' = [hpc EXCEPT ![h] = "write"]
                  /\ bsent' = [bsent EXCEPT ![b] = @ \cup {h}]
                  /\ UNCHANGED bskip
             ELSE IF TrySend(h) = "skipped"
             THEN /\ bskip' = [bskip EXCEPT ![b] = @ \cup {h}]
                  /\ UNCHANGED <<inbox, hpc, bsent>>
             ELSE UNCHANGED <<inbox, hpc, bsent, bskip>>
          /\ IF TrySend(h) = "panic"
             THEN /\ bpc' = [bpc EXCEPT ![b] = "panicked"]
                  /\ mux' = Free
             ELSE UNCHANGED <<bpc, mux>>
          /\ bparked' = [bparked EXCEPT ![b] = IF Parked(h) THEN @ \cup {h} ELSE @]
    /\ btodo' = [btodo EXCEPT ![b] = RangeRest(@, id)]
    /\ UNCHANGED <<mainPc, httpPc, httpServer, sawHTTPServer, inShutdown, sseClients,
                   hid, ctxDone, chanCloses, written, bmsg,
                   nextMsg, closeLog, swept, dbCloses, sseAddr>>

\* server.go 247, 257: the range is over, the deferred Unlock runs
BroadcastReturn(b) ==
    /\ Alive
    /\ bpc[b] = "range"
    /\ btodo[b] = {}
    /\ mux' = Free
    /\ bpc' = [bpc EXCEPT ![b] = "idle"]
    /\ UNCHANGED <<mainPc, httpPc, httpServer, sawHTTPServer, inShutdown, sseClients,
                   hpc, hid, ctxDone, chanCloses, inbox, written, bmsg, btodo, bsent,
                   bskip, bparked, nextMsg, closeLog, swept, dbCloses, sseAddr>>

\* ---- PostgresMCPServer.Close -------------------------------------------------
\* a variant that closes the database before it sweeps the registry
CloseStepsDBFirst(saw) == IF saw THEN <<"shutdown", "dbclose", "sweep">>
                          ELSE <<"dbclose", "sweep">>

\* the steps of Close, in program order (lines 262-266, 269-274, 277)
CloseSteps(saw) == IF saw THEN <<"shutdown", "sweep", "dbclose">>
                   ELSE <<"sweep", "dbclose">>

\* the step Close is about to perform
CloseAt(step) ==
    /\ mainPc = "closing"
    /\ Len(closeLog) < Len(CloseSteps(sawHTTPServer))
    /\ CloseSteps(sawHTTPServer)[Len(closeLog) + 1] = step

\* server.go 262: if s.httpServer != nil.  The field is written by the
\* ServeHTTP goroutine without synchronisation: once written, the read may
\* return either the old or the new value.
CloseCheck(saw) ==
    /\ mainPc = "close"
    /\ saw \in (IF httpServer THEN {TRUE, FALSE} ELSE {FALSE})
    /\ sawHTTPServer' = saw
    /\ mainPc' = "closing"
    /\ UNCHANGED <<httpPc, httpServer, inShutdown, sseClients, mux, hpc,
                   hid, ctxDone, chanCloses, inbox, written, bpc, bmsg, btodo, bsent,
                   bskip, bparked, nextMsg, closeLog, swept, dbCloses, sseAddr>>

\* server.go 263-265: Shutdown closes the listener and returns when every
\* connection is idle or when the 5 s of its context are over
CloseShutdown ==
    /\ CloseAt("shutdown")
    /\ inShutdown' = TRUE
    /\ httpPc' = IF httpPc = "listening" THEN "stopped" ELSE httpPc
    /\ closeLog' = Append(closeLog, "shutdown")
    /\ UNCHANGED <<mainPc, httpServer, sawHTTPServer, sseClients, mux, hpc,
                   hid, ctxDone, chanCloses, inbox, written, bpc, bmsg, btodo, bsent,
                   bskip, bparked, nextMsg, swept, dbCloses, sseAddr>>

\* a variant of the sweep that closes the channels and keeps the entries
SweptRegistryKept == sseClients

\* server.go 272: delete(s.sseClients, id) for every entry
SweptRegistry == [id \in IDs |-> 0]

\* server.go 269-274: under the lock, every channel of the registry is closed
\* and its entry deleted
CloseSweep ==
    /\ CloseAt("sweep")
    /\ mux = Free
    /\ LET owners == {sseClients[id] : id \in Registered}
       IN /\ chanCloses' = [h \in Conns |-> IF h \in owners THEN chanCloses[h] + 1
                                            ELSE chanCloses[h]]
          /\ swept' = owners
          /\ IF \E h \in owners : ClosePanics(h)
             THEN mux' = ByClose /\ mainPc' = "exited" /\ UNCHANGED closeLog
             ELSE mux' = Free /\ closeLog' = Append(closeLog, "sweep") /\ UNCHANGED mainPc
    /\ sseClients' = SweptRegistry
    /\ UNCHANGED <<httpPc, httpServer, sawHTTPServer, inShutdown, hpc,
                   hid, ctxDone, inbox, written, bpc, bmsg, btodo, bsent,
                   bskip, bparked, nextMsg, dbCloses, sseAddr>>

\* server.go 277: return s.db.Close()
CloseDB ==
    /\ CloseAt("dbclose")
    /\ dbCloses' = dbCloses + 1
    /\ closeLog' = Append(closeLog, "dbclose")
    /\ mainPc' = "closed"
    /\ UNCHANGED <<httpPc, httpServer, sawHTTPServer, inShutdown, sseClients, mux, hpc,
                   hid, ctxDone, chanCloses, inbox, written, bpc, bmsg, btodo, bsent,
                   bskip, bparked, nextMsg, swept, sseAddr>>

\* ===========================================================================
\* SpecHTTP: the /mcp handler of ServeHTTP and the stdio loop of Serve
\* ===========================================================================
Methods == {"POST", "GET"}

\* request bodies: text that is not JSON, a JSON array, a JSON object that is
\* no JSON-RPC request, a ping request, a call of the query tool
Bodies == {"garbage", "array", "object", "ping", "tools/call"}

\* a variant of the decoder that accepts every body
DecodesAnything(body) == TRUE

\* server.go 151-152: json.NewDecoder(r.Body).Decode(&request) with request a
\* map[string]interface{}: only a JSON object (or null) decodes
Decodes(body) == body \notin {"garbage", "array"}

\* server.go 165: HandleMessage runs the query tool for a tools/call request
\* and answers the other messages without the database
TouchesDB(body) == body = "tools/call"

\* server.go 169: json.NewEncoder(w).Encode(response), the JSON text of the
\* response followed by a newline
Encode(response) == [json |-> ResponseJSON(response), newline |-> TRUE]

NoPost == [method |-> "", body |-> "", status |-> 0, dispatched |-> FALSE,
           dbOp |-> FALSE, inline |-> [json |-> 0, newline |-> FALSE]]

\* http.Error(w, ..., status): nothing else is written
Refused(method, body, status) ==
    [method |-> method, body |-> body, status |-> status, dispatched |-> FALSE,
     dbOp |-> FALSE, inline |-> [json |-> 0, newline |-> FALSE]]

\* server.go 148-177: the /mcp handler up to its call of broadcastSSE
MCPHandler(b, method, body) ==
    /\ Alive /\ Listening
    /\ bpc[b] = "idle"
    /\ IF method # "POST"
       THEN /\ rejects < MaxRejects
            /\ post' = [post EXCEPT ![b] = Refused(method, body, 405)]
            /\ rejects' = rejects + 1
            /\ UNCHANGED sseVars
       ELSE IF ~Decodes(body)
       THEN /\ rejects < MaxRejects
            /\ post' = [post EXCEPT ![b] = Refused(method, body, 400)]
            /\ rejects' = rejects + 1
            /\ UNCHANGED sseVars
       ELSE /\ BroadcastCall(b)
            /\ post' = [post EXCEPT ![b] =
                           [method |-> method, body |-> body, status |-> 200,
                            dispatched |-> TRUE, dbOp |-> TouchesDB(body),
                            inline |-> Encode(nextMsg)]]
            /\ UNCHANGED rejects
    /\ UNCHANGED <<stdioOut, missed>>

\* server.go 136-138: ServeStdio reads a request from stdin, hands it to
\* the MCP server and writes the response to stdout
StdioRequest ==
    /\ mainPc = "serve"
    /\ nextMsg <= MaxMsgs
    /\ stdioOut' = Append(stdioOut, nextMsg)
    /\ nextMsg' = nextMsg + 1
    /\ UNCHANGED <<sseAddr, mainPc, httpPc, httpServer, sawHTTPServer, inShutdown,
                   sseClients, mux, hpc, hid, ctxDone, chanCloses, inbox, written,
                   bpc, bmsg, btodo, bsent, bskip, bparked, closeLog, swept, dbCloses>>
    /\ UNCHANGED <<post, rejects, missed>>

\* the messages whose broadcastSSE call has taken the lock
Broadcasted ==
    { m \in 1..(nextMsg - 1) :
        /\ m \notin Range(stdioOut)
        /\ \A b \in Bcasters : ~(bpc[b] = "lock" /\ bmsg[b] = m) }

\* handleSSE registers; the messages broadcast up to now are noted
SSERegisterNoting(h, id) ==
    /\ SSERegister(h, id)
    /\ missed' = [missed EXCEPT ![h] = Broadcasted]
    /\ UNCHANGED <<post, rejects, stdioOut>>

\* ===========================================================================
\* SpecOrder: concurrent calls of broadcastSSE
\* ===========================================================================
Posters == 1..NumPosters

\* server.go 246: the call takes the lock; the order of the calls is noted
BroadcastLockNoting(b) ==
    /\ BroadcastLock(b)
    /\ lockOrder' = Append(lockOrder, bmsg[b])

\* ===========================================================================
\* Specifications
\* ===========================================================================
\* no instance constructed yet
NoConn == [scheme |-> "postgresql", user |-> NoCred, password |-> NoCred,
           host |-> "host", path |-> "/db", query |-> NoCred]
IdleArg == [kind |-> "absent", sql |-> <<>>]
\* a database whose default schema holds the table users
UsersOnly == [s \in Schemas |-> [t \in Tables |->
                 IF s = DefaultSchema /\ t = "users"
                 THEN TableOf(<<Column("id", "integer")>>) ELSE NoTable]]
NoRows == [rows |-> <<>>, err |-> NoErr]

\* two server instances, each with its own connection string, before db.New
InitSetup ==
    /\ connStr \in [Instances -> {c \in ConnStrings : WellFormedConn(c)}]
    /\ resourceBaseURL = [i \in Instances |-> <<>>]
    /\ resources = [i \in Instances |-> <<>>]
    /\ tableNames = [i \in Instances |-> <<>>]
    /\ spc = [i \in Instances |-> "new"]
    /\ catalog \in InitialCatalogs
    /\ ddl = 0
    /\ reads = <<>>
    /\ table = InitialTable
    /\ qpc = [c \in Calls |-> "idle"]
    /\ qarg = [c \in Calls |-> IdleArg]
    /\ sess = [c \in Calls |-> NoSession]
    /\ sent = [c \in Calls |-> <<>>]
    /\ fetched = [c \in Calls |-> NoRows]
    /\ acc = [c \in Calls |-> <<>>]
    /\ execRes = [c \in Calls |-> NoResult]
    /\ toolRes = [c \in Calls |-> NoToolResult]
    /\ steps = [c \in Calls |-> <<>>]
    /\ sseAddr = FALSE
    /\ mainPc = "setup"
    /\ httpPc = "none"
    /\ httpServer = FALSE
    /\ sawHTTPServer = FALSE
    /\ inShutdown = FALSE
    /\ sseClients = [id \in IDs |-> 0]
    /\ mux = Free
    /\ hpc = [h \in Conns |-> "none"]
    /\ hid = [h \in Conns |-> 0]
    /\ ctxDone = [h \in Conns |-> FALSE]
    /\ chanCloses = [h \in Conns |-> 0]
    /\ inbox = [h \in Conns |-> 0]
    /\ written = [h \in Conns |-> <<>>]
    /\ bpc = [b \in Bcasters |-> "idle"]
    /\ bmsg = [b \in Bcasters |-> 0]
    /\ btodo = [b \in Bcasters |-> {}]
    /\ bsent = [b \in Bcasters |-> {}]
    /\ bskip = [b \in Bcasters |-> {}]
    /\ bparked = [b \in Bcasters |-> {}]
    /\ nextMsg = 1
    /\ closeLog = <<>>
    /\ swept = {}
    /\ dbCloses = 0
    /\ post = [b \in Bcasters |-> NoPost]
    /\ rejects = 0
    /\ stdioOut = <<>>
    /\ missed = [h \in Conns |-> {}]
    /\ listed = <<>>
    /\ lockOrder = <<>>

\* server instances started against one database that other sessions change
InitResource ==
    /\ connStr = [i \in Instances |-> NoConn]
    /\ resourceBaseURL = [i \in Instances |-> <<>>]
    /\ resources = [i \in Instances |-> <<>>]
    /\ tableNames = [i \in Instances |-> <<>>]
    /\ spc = [i \in Instances |-> "new"]
    /\ catalog \in InitialCatalogs
    /\ ddl = 0
    /\ reads = <<>>
    /\ table = InitialTable
    /\ qpc = [c \in Calls |-> "idle"]
    /\ qarg = [c \in Calls |-> IdleArg]
    /\ sess = [c \in Calls |-> NoSession]
    /\ sent = [c \in Calls |-> <<>>]
    /\ fetched = [c \in Calls |-> NoRows]
    /\ acc = [c \in Calls |-> <<>>]
    /\ execRes = [c \in Calls |-> NoResult]
    /\ toolRes = [c \in Calls |-> NoToolResult]
    /\ steps = [c \in Calls |-> <<>>]
    /\ sseAddr = FALSE
    /\ mainPc = "setup"
    /\ httpPc = "none"
    /\ httpServer = FALSE
    /\ sawHTTPServer = FALSE
    /\ inShutdown = FALSE
    /\ sseClients = [id \in IDs |-> 0]
    /\ mux = Free
    /\ hpc = [h \in Conns |-> "none"]
    /\ hid = [h \in Conns |-> 0]
    /\ ctxDone = [h \in Conns |-> FALSE]
    /\ chanCloses = [h \in Conns |-> 0]
    /\ inbox = [h \in Conns |-> 0]
    /\ written = [h \in Conns |-> <<>>]
    /\ bpc = [b \in Bcasters |-> "idle"]
    /\ bmsg = [b \in Bcasters |-> 0]
    /\ btodo = [b \in Bcasters |-> {}]
    /\ bsent = [b \in Bcasters |-> {}]
    /\ bskip = [b \in Bcasters |-> {}]
    /\ bparked = [b \in Bcasters |-> {}]
    /\ nextMsg = 1
    /\ closeLog = <<>>
    /\ swept = {}
    /\ dbCloses = 0
    /\ post = [b \in Bcasters |-> NoPost]
    /\ rejects = 0
    /\ stdioOut = <<>>
    /\ missed = [h \in Conns |-> {}]
    /\ listed = <<>>
    /\ lockOrder = <<>>

\* a connected server with no query tool call in progress
InitQuery ==
    /\ connStr = [i \in Instances |-> NoConn]
    /\ resourceBaseURL = [i \in Instances |-> <<>>]
    /\ resources = [i \in Instances |-> <<>>]
    /\ tableNames = [i \in Instances |-> <<>>]
    /\ spc = [i \in Instances |-> "new"]
    /\ catalog = UsersOnly
    /\ ddl = 0
    /\ reads = <<>>
    /\ table = InitialTable
    /\ qpc = [c \in Calls |-> "idle"]
    /\ qarg = [c \in Calls |-> IdleArg]
    /\ sess = [c \in Calls |-> NoSession]
    /\ sent = [c \in Calls |-> <<>>]
    /\ fetched = [c \in Calls |-> NoRows]
    /\ acc = [c \in Calls |-> <<>>]
    /\ execRes = [c \in Calls |-> NoResult]
    /\ toolRes = [c \in Calls |-> NoToolResult]
    /\ steps = [c \in Calls |-> <<>>]
    /\ sseAddr = FALSE
    /\ mainPc = "setup"
    /\ httpPc = "none"
    /\ httpServer = FALSE
    /\ sawHTTPServer = FALSE
    /\ inShutdown = FALSE
    /\ sseClients = [id \in IDs |-> 0]
    /\ mux = Free
    /\ hpc = [h \in Conns |-> "none"]
    /\ hid = [h \in Conns |-> 0]
    /\ ctxDone = [h \in Conns |-> FALSE]
    /\ chanCloses = [h \in Conns |-> 0]
    /\ inbox = [h \in Conns |-> 0]
    /\ written = [h \in Conns |-> <<>>]
    /\ bpc = [b \in Bcasters |-> "idle"]
    /\ bmsg = [b \in Bcasters |-> 0]
    /\ btodo = [b \in Bcasters |-> {}]
    /\ bsent = [b \in Bcasters |-> {}]
    /\ bskip = [b \in Bcasters |-> {}]
    /\ bparked = [b \in Bcasters |-> {}]
    /\ nextMsg = 1
    /\ closeLog = <<>>
    /\ swept = {}
    /\ dbCloses = 0
    /\ post = [b \in Bcasters |-> NoPost]
    /\ rejects = 0
    /\ stdioOut = <<>>
    /\ missed = [h \in Conns |-> {}]
    /\ listed = <<>>
    /\ lockOrder = <<>>

\* func main after server.New has returned the server
Init ==
    /\ connStr = [i \in Instances |-> NoConn]
    /\ resourceBaseURL = [i \in Instances |-> <<>>]
    /\ resources = [i \in Instances |-> <<>>]
    /\ tableNames = [i \in Instances |-> <<>>]
    /\ spc = [i \in Instances |-> "new"]
    /\ catalog = UsersOnly
    /\ ddl = 0
    /\ reads = <<>>
    /\ table = InitialTable
    /\ qpc = [c \in Calls |-> "idle"]
    /\ qarg = [c \in Calls |-> IdleArg]
    /\ sess = [c \in Calls |-> NoSession]
    /\ sent = [c \in Calls |-> <<>>]
    /\ fetched = [c \in Calls |-> NoRows]
    /\ acc = [c \in Calls |-> <<>>]
    /\ execRes = [c \in Calls |-> NoResult]
    /\ toolRes = [c \in Calls |-> NoToolResult]
    /\ steps = [c \in Calls |-> <<>>]
    /\ sseAddr \in BOOLEAN
    /\ mainPc = "setup"
    /\ httpPc = "none"
    /\ httpServer = FALSE
    /\ sawHTTPServer = FALSE
    /\ inShutdown = FALSE
    /\ sseClients = [id \in IDs |-> 0]
    /\ mux = Free
    /\ hpc = [h \in Conns |-> "none"]
    /\ hid = [h \in Conns |-> 0]
    /\ ctxDone = [h \in Conns |-> FALSE]
    /\ chanCloses = [h \in Conns |-> 0]
    /\ inbox = [h \in Conns |-> 0]
    /\ written = [h \in Conns |-> <<>>]
    /\ bpc = [b \in Bcasters |-> "idle"]
    /\ bmsg = [b \in Bcasters |-> 0]
    /\ btodo = [b \in Bcasters |-> {}]
    /\ bsent = [b \in Bcasters |-> {}]
    /\ bskip = [b \in Bcasters |-> {}]
    /\ bparked = [b \in Bcasters |-> {}]
    /\ nextMsg = 1
    /\ closeLog = <<>>
    /\ swept = {}
    /\ dbCloses = 0
    /\ post = [b \in Bcasters |-> NoPost]
    /\ rejects = 0
    /\ stdioOut = <<>>
    /\ missed = [h \in Conns |-> {}]
    /\ listed = <<>>
    /\ lockOrder = <<>>

\* the server is serving: main is in Serve and the HTTP listener is up
InitHTTP ==
    /\ connStr = [i \in Instances |-> NoConn]
    /\ resourceBaseURL = [i \in Instances |-> <<>>]
    /\ resources = [i \in Instances |-> <<>>]
    /\ tableNames = [i \in Instances |-> <<>>]
    /\ spc = [i \in Instances |-> "new"]
    /\ catalog = UsersOnly
    /\ ddl = 0
    /\ reads = <<>>
    /\ table = InitialTable
    /\ qpc = [c \in Calls |-> "idle"]
    /\ qarg = [c \in Calls |-> IdleArg]
    /\ sess = [c \in Calls |-> NoSession]
    /\ sent = [c \in Calls |-> <<>>]
    /\ fetched = [c \in Calls |-> NoRows]
    /\ acc = [c \in Calls |-> <<>>]
    /\ execRes = [c \in Calls |-> NoResult]
    /\ toolRes = [c \in Calls |-> NoToolResult]
    /\ steps = [c \in Calls |-> <<>>]
    /\ sseAddr = TRUE
    /\ mainPc = "serve"
    /\ httpPc = "listening"
    /\ httpServer = TRUE
    /\ sawHTTPServer = FALSE
    /\ inShutdown = FALSE
    /\ sseClients = [id \in IDs |-> 0]
    /\ mux = Free
    /\ hpc = [h \in Conns |-> "none"]
    /\ hid = [h \in Conns |-> 0]
    /\ ctxDone = [h \in Conns |-> FALSE]
    /\ chanCloses = [h \in Conns |-> 0]
    /\ inbox = [h \in Conns |-> 0]
    /\ written = [h \in Conns |-> <<>>]
    /\ bpc = [b \in Bcasters |-> "idle"]
    /\ bmsg = [b \in Bcasters |-> 0]
    /\ btodo = [b \in Bcasters |-> {}]
    /\ bsent = [b \in Bcasters |-> {}]
    /\ bskip = [b \in Bcasters |-> {}]
    /\ bparked = [b \in Bcasters |-> {}]
    /\ nextMsg = 1
    /\ closeLog = <<>>
    /\ swept = {}
    /\ dbCloses = 0
    /\ post = [b \in Bcasters |-> NoPost]
    /\ rejects = 0
    /\ stdioOut = <<>>
    /\ missed = [h \in Conns |-> {}]
    /\ listed = <<>>
    /\ lockOrder = <<>>

SetupNext ==
    \/ \E i \in Instances : New(i) /\ UNCHANGED <<queryVars, sseVars, httpVars, toolVars, orderVars>>
    \/ \E i \in Instances, ok \in BOOLEAN : Setup(i, ok) /\ UNCHANGED <<queryVars, sseVars, httpVars, toolVars, orderVars>>

SpecSetup == InitSetup /\ [][SetupNext]_vars

ResourceNext ==
    \/ \E i \in Instances : New(i) /\ UNCHANGED <<queryVars, sseVars, httpVars, toolVars, orderVars>>
    \/ \E i \in Instances, ok \in BOOLEAN : Setup(i, ok) /\ UNCHANGED <<queryVars, sseVars, httpVars, toolVars, orderVars>>
    \/ \E i \in Instances, k \in 1..Cardinality(Tables), ok \in BOOLEAN :
          ReadResource(i, k, ok) /\ UNCHANGED <<queryVars, sseVars, httpVars, toolVars, orderVars>>
    \/ \E s \in Schemas, t \in Tables, cols \in ColumnLists :
          CreateTable(s, t, cols) /\ UNCHANGED <<queryVars, sseVars, httpVars, toolVars, orderVars>>
    \/ \E s \in Schemas, t \in Tables : DropTable(s, t) /\ UNCHANGED <<queryVars, sseVars, httpVars, toolVars, orderVars>>
    \/ \E s \in Schemas, t \in Tables, cols \in ColumnLists :
          AlterTable(s, t, cols) /\ UNCHANGED <<queryVars, sseVars, httpVars, toolVars, orderVars>>

SpecResource == InitResource /\ [][ResourceNext]_vars

QueryNext ==
    \/ \E c \in Calls, a \in Args : QueryToolCall(c, a) /\ UNCHANGED <<setupVars, sseVars, httpVars, toolVars, orderVars>>
    \/ \E c \in Calls, ok \in BOOLEAN : Beginx(c, ok) /\ UNCHANGED <<setupVars, sseVars, httpVars, toolVars, orderVars>>
    \/ \E c \in Calls, ok \in BOOLEAN : SetReadOnly(c, ok) /\ UNCHANGED <<setupVars, sseVars, httpVars, toolVars, orderVars>>
    \/ \E c \in Calls : Queryx(c) /\ UNCHANGED <<setupVars, sseVars, httpVars, toolVars, orderVars>>
    \/ \E c \in Calls, ok \in BOOLEAN : ScanRow(c, ok) /\ UNCHANGED <<setupVars, sseVars, httpVars, toolVars, orderVars>>
    \/ \E c \in Calls, ok \in BOOLEAN : RowsErr(c, ok) /\ UNCHANGED <<setupVars, sseVars, httpVars, toolVars, orderVars>>
    \/ \E c \in Calls, ok \in BOOLEAN : FinalRollback(c, ok) /\ UNCHANGED <<setupVars, sseVars, httpVars, toolVars, orderVars>>
    \/ \E c \in Calls : Respond(c) /\ UNCHANGED <<setupVars, sseVars, httpVars, toolVars, orderVars>>

SpecQuery == InitQuery /\ [][QueryNext]_vars

Next ==
    \/ \E ok \in BOOLEAN : MainSetup(ok) /\ UNCHANGED <<setupVars, queryVars, httpVars, toolVars, orderVars>>
    \/ MainSpawn /\ UNCHANGED <<setupVars, queryVars, httpVars, toolVars, orderVars>>
    \/ \E ok \in BOOLEAN : MainServeReturns(ok) /\ UNCHANGED <<setupVars, queryVars, httpVars, toolVars, orderVars>>
    \/ MainExit /\ UNCHANGED <<setupVars, queryVars, httpVars, toolVars, orderVars>>
    \/ HTTPAssign /\ UNCHANGED <<setupVars, queryVars, httpVars, toolVars, orderVars>>
    \/ \E ok \in BOOLEAN : HTTPListen(ok) /\ UNCHANGED <<setupVars, queryVars, httpVars, toolVars, orderVars>>
    \/ \E h \in Conns : SSEConnect(h) /\ UNCHANGED <<setupVars, queryVars, httpVars, toolVars, orderVars>>
    \/ \E h \in Conns : ClientDisconnect(h) /\ UNCHANGED <<setupVars, queryVars, httpVars, toolVars, orderVars>>
    \/ \E h \in Conns, id \in IDs : SSERegister(h, id) /\ UNCHANGED <<setupVars, queryVars, httpVars, toolVars, orderVars>>
    \/ \E h \in Conns : SSEHello(h) /\ UNCHANGED <<setupVars, queryVars, httpVars, toolVars, orderVars>>
    \/ \E h \in Conns : SSERecvClosed(h) /\ UNCHANGED <<setupVars, queryVars, httpVars, toolVars, orderVars>>
    \/ \E h \in Conns : SSEWrite(h) /\ UNCHANGED <<setupVars, queryVars, httpVars, toolVars, orderVars>>
    \/ \E h \in Conns : SSETimer(h) /\ UNCHANGED <<setupVars, queryVars, httpVars, toolVars, orderVars>>
    \/ \E h \in Conns : SSEPing(h) /\ UNCHANGED <<setupVars, queryVars, httpVars, toolVars, orderVars>>
    \/ \E h \in Conns : SSEDeferred(h) /\ UNCHANGED <<setupVars, queryVars, httpVars, toolVars, orderVars>>
    \/ \E b \in Bcasters : BroadcastCall(b) /\ UNCHANGED <<setupVars, queryVars, httpVars, toolVars, orderVars>>
    \/ \E b \in Bcasters : BroadcastLock(b) /\ UNCHANGED <<setupVars, queryVars, httpVars, toolVars, orderVars>>
    \/ \E b \in Bcasters, id \in IDs : BroadcastSend(b, id) /\ UNCHANGED <<setupVars, queryVars, httpVars, toolVars, orderVars>>
    \/ \E b \in Bcasters : BroadcastReturn(b) /\ UNCHANGED <<setupVars, queryVars, httpVars, toolVars, orderVars>>
    \/ \E saw \in BOOLEAN : CloseCheck(saw) /\ UNCHANGED <<setupVars, queryVars, httpVars, toolVars, orderVars>>
    \/ CloseShutdown /\ UNCHANGED <<setupVars, queryVars, httpVars, toolVars, orderVars>>
    \/ CloseSweep /\ UNCHANGED <<setupVars, queryVars, httpVars, toolVars, orderVars>>
    \/ CloseDB /\ UNCHANGED <<setupVars, queryVars, httpVars, toolVars, orderVars>>

Spec == Init /\ [][Next]_vars

HTTPNext ==
    \/ \E h \in Conns : SSEConnect(h) /\ UNCHANGED <<setupVars, queryVars, httpVars, toolVars, orderVars>>
    \/ \E h \in Conns : ClientDisconnect(h) /\ UNCHANGED <<setupVars, queryVars, httpVars, toolVars, orderVars>>
    \/ \E h \in Conns, id \in IDs : SSERegisterNoting(h, id) /\ UNCHANGED <<setupVars, queryVars, toolVars, orderVars>>
    \/ \E h \in Conns : SSEHello(h) /\ UNCHANGED <<setupVars, queryVars, httpVars, toolVars, orderVars>>
    \/ \E h \in Conns : SSEWrite(h) /\ UNCHANGED <<setupVars, queryVars, httpVars, toolVars, orderVars>>
    \/ \E h \in Conns : SSETimer(h) /\ UNCHANGED <<setupVars, queryVars, httpVars, toolVars, orderVars>>
    \/ \E h \in Conns : SSEPing(h) /\ UNCHANGED <<setupVars, queryVars, httpVars, toolVars, orderVars>>
    \/ \E h \in Conns : SSEDeferred(h) /\ UNCHANGED <<setupVars, queryVars, httpVars, toolVars, orderVars>>
    \/ \E b \in Bcasters, method \in Methods, body \in Bodies :
          MCPHandler(b, method, body) /\ UNCHANGED <<setupVars, queryVars, toolVars, orderVars>>
    \/ \E b \in Bcasters : BroadcastLock(b) /\ UNCHANGED <<setupVars, queryVars, httpVars, toolVars, orderVars>>
    \/ \E b \in Bcasters, id \in IDs : BroadcastSend(b, id) /\ UNCHANGED <<setupVars, queryVars, httpVars, toolVars, orderVars>>
    \/ \E b \in Bcasters : BroadcastReturn(b) /\ UNCHANGED <<setupVars, queryVars, httpVars, toolVars, orderVars>>
    \/ StdioRequest /\ UNCHANGED <<setupVars, queryVars, toolVars, orderVars>>

SpecHTTP == InitHTTP /\ [][HTTPNext]_vars

\* the database of the stand-alone server, after db.New, with no call served
InitTools ==
    /\ connStr = [i \in Instances |-> NoConn]
    /\ resourceBaseURL = [i \in Instances |-> <<>>]
    /\ resources = [i \in Instances |-> <<>>]
    /\ tableNames = [i \in Instances |-> <<>>]
    /\ spc = [i \in Instances |-> "new"]
    /\ catalog \in InitialCatalogs
    /\ ddl = 0
    /\ reads = <<>>
    /\ table = InitialTable
    /\ qpc = [c \in Calls |-> "idle"]
    /\ qarg = [c \in Calls |-> IdleArg]
    /\ sess = [c \in Calls |-> NoSession]
    /\ sent = [c \in Calls |-> <<>>]
    /\ fetched = [c \in Calls |-> NoRows]
    /\ acc = [c \in Calls |-> <<>>]
    /\ execRes = [c \in Calls |-> NoResult]
    /\ toolRes = [c \in Calls |-> NoToolResult]
    /\ steps = [c \in Calls |-> <<>>]
    /\ sseAddr = FALSE
    /\ mainPc = "setup"
    /\ httpPc = "none"
    /\ httpServer = FALSE
    /\ sawHTTPServer = FALSE
    /\ inShutdown = FALSE
    /\ sseClients = [id \in IDs |-> 0]
    /\ mux = Free
    /\ hpc = [h \in Conns |-> "none"]
    /\ hid = [h \in Conns |-> 0]
    /\ ctxDone = [h \in Conns |-> FALSE]
    /\ chanCloses = [h \in Conns |-> 0]
    /\ inbox = [h \in Conns |-> 0]
    /\ written = [h \in Conns |-> <<>>]
    /\ bpc = [b \in Bcasters |-> "idle"]
    /\ bmsg = [b \in Bcasters |-> 0]
    /\ btodo = [b \in Bcasters |-> {}]
    /\ bsent = [b \in Bcasters |-> {}]
    /\ bskip = [b \in Bcasters |-> {}]
    /\ bparked = [b \in Bcasters |-> {}]
    /\ nextMsg = 1
    /\ closeLog = <<>>
    /\ swept = {}
    /\ dbCloses = 0
    /\ post = [b \in Bcasters |-> NoPost]
    /\ rejects = 0
    /\ stdioOut = <<>>
    /\ missed = [h \in Conns |-> {}]
    /\ listed = <<>>
    /\ lockOrder = <<>>

ToolsNext ==
    \/ \E ok \in BOOLEAN : ListTables(ok) /\ UNCHANGED <<queryVars, sseVars, httpVars, orderVars>>
    \/ \E s \in Schemas, t \in Tables, cols \in ColumnLists :
          CreateTable(s, t, cols) /\ UNCHANGED <<queryVars, sseVars, httpVars, toolVars, orderVars>>
    \/ \E s \in Schemas, t \in Tables : DropTable(s, t) /\ UNCHANGED <<queryVars, sseVars, httpVars, toolVars, orderVars>>
    \/ \E s \in Schemas, t \in Tables, cols \in ColumnLists :
          AlterTable(s, t, cols) /\ UNCHANGED <<queryVars, sseVars, httpVars, toolVars, orderVars>>

SpecTools == InitTools /\ [][ToolsNext]_vars

\* the server is serving and several /mcp handlers may call broadcastSSE at once
InitOrder ==
    /\ connStr = [i \in Instances |-> NoConn]
    /\ resourceBaseURL = [i \in Instances |-> <<>>]
    /\ resources = [i \in Instances |-> <<>>]
    /\ tableNames = [i \in Instances |-> <<>>]
    /\ spc = [i \in Instances |-> "new"]
    /\ catalog = UsersOnly
    /\ ddl = 0
    /\ reads = <<>>
    /\ table = InitialTable
    /\ qpc = [c \in Calls |-> "idle"]
    /\ qarg = [c \in Calls |-> IdleArg]
    /\ sess = [c \in Calls |-> NoSession]
    /\ sent = [c \in Calls |-> <<>>]
    /\ fetched = [c \in Calls |-> NoRows]
    /\ acc = [c \in Calls |-> <<>>]
    /\ execRes = [c \in Calls |-> NoResult]
    /\ toolRes = [c \in Calls |-> NoToolResult]
    /\ steps = [c \in Calls |-> <<>>]
    /\ sseAddr = TRUE
    /\ mainPc = "serve"
    /\ httpPc = "listening"
    /\ httpServer = TRUE
    /\ sawHTTPServer = FALSE
    /\ inShutdown = FALSE
    /\ sseClients = [id \in IDs |-> 0]
    /\ mux = Free
    /\ hpc = [h \in Conns |-> "none"]
    /\ hid = [h \in Conns |-> 0]
    /\ ctxDone = [h \in Conns |-> FALSE]
    /\ chanCloses = [h \in Conns |-> 0]
    /\ inbox = [h \in Conns |-> 0]
    /\ written = [h \in Conns |-> <<>>]
    /\ bpc = [b \in Posters |-> "idle"]
    /\ bmsg = [b \in Posters |-> 0]
    /\ btodo = [b \in Posters |-> {}]
    /\ bsent = [b \in Posters |-> {}]
    /\ bskip = [b \in Posters |-> {}]
    /\ bparked = [b \in Posters |-> {}]
    /\ nextMsg = 1
    /\ closeLog = <<>>
    /\ swept = {}
    /\ dbCloses = 0
    /\ post = [b \in Bcasters |-> NoPost]
    /\ rejects = 0
    /\ stdioOut = <<>>
    /\ missed = [h \in Conns |-> {}]
    /\ listed = <<>>
    /\ lockOrder = <<>>

OrderNext ==
    \/ \E h \in Conns : SSEConnect(h) /\ UNCHANGED <<setupVars, queryVars, httpVars, toolVars, orderVars>>
    \/ \E h \in Conns : ClientDisconnect(h) /\ UNCHANGED <<setupVars, queryVars, httpVars, toolVars, orderVars>>
    \/ \E h \in Conns, id \in IDs : SSERegister(h, id) /\ UNCHANGED <<setupVars, queryVars, httpVars, toolVars, orderVars>>
    \/ \E h \in Conns : SSEHello(h) /\ UNCHANGED <<setupVars, queryVars, httpVars, toolVars, orderVars>>
    \/ \E h \in Conns : SSEWrite(h) /\ UNCHANGED <<setupVars, queryVars, httpVars, toolVars, orderVars>>
    \/ \E h \in Conns : SSETimer(h) /\ UNCHANGED <<setupVars, queryVars, httpVars, toolVars, orderVars>>
    \/ \E h \in Conns : SSEPing(h) /\ UNCHANGED <<setupVars, queryVars, httpVars, toolVars, orderVars>>
    \/ \E h \in Conns : SSEDeferred(h) /\ UNCHANGED <<setupVars, queryVars, httpVars, toolVars, orderVars>>
    \/ \E b \in Posters : BroadcastCall(b) /\ UNCHANGED <<setupVars, queryVars, httpVars, toolVars, orderVars>>
    \/ \E b \in Posters : BroadcastLockNoting(b) /\ UNCHANGED <<setupVars, queryVars, httpVars, toolVars>>
    \/ \E b \in Posters, id \in IDs : BroadcastSend(b, id) /\ UNCHANGED <<setupVars, queryVars, httpVars, toolVars, orderVars>>
    \/ \E b \in Posters : BroadcastReturn(b) /\ UNCHANGED <<setupVars, queryVars, httpVars, toolVars, orderVars>>

SpecOrder == InitOrder /\ [][OrderNext]_vars

\* ===========================================================================
\* Properties of SpecSetup
\* ===========================================================================
\* the credentials a connection string carries
Credentials(c) == {c.user, c.password} \ {NoCred}

SameButCredentials(c, d) ==
    c.scheme = d.scheme /\ c.host = d.host /\ c.path = d.path /\ c.query = d.query

URIsOf(i) == [k \in 1..Len(resources[i]) |-> resources[i][k].uri]

\* C4: no published resource URI contains a credential of the connection
\* string; connection strings that differ only in their credentials give the
\* same base URL and the same URIs; postgresql://u:p@host/db with table users
\* publishes exactly postgres://host/db/users/schema.
C4_NoCredentialInURI ==
    /\ \A i \in Instances : \A k \in 1..Len(resources[i]) :
          Range(resources[i][k].uri) \cap Credentials(connStr[i]) = {}
    /\ \A i, j \in Instances :
          (spc[i] = "serving" /\ spc[j] = "serving"
               /\ SameButCredentials(connStr[i], connStr[j]))
              => resourceBaseURL[i] = resourceBaseURL[j] /\ URIsOf(i) = URIsOf(j)
    /\ \A i \in Instances :
          (spc[i] = "serving" /\ tableNames[i] # <<>> /\ tableNames[i][1] = "users"
               /\ connStr[i] = [scheme |-> "postgresql", user |-> "u", password |-> "p",
                                host |-> "host", path |-> "/db", query |-> NoCred])
              => resources[i][1].uri
                   = <<"postgres", "://", "host", "/db", "/", "users", "/", "schema">>

\* position of the first token tok of a sequence, Len + 1 if there is none
IndexOf(seq, tok) ==
    CHOOSE n \in 1..(Len(seq) + 1) :
        /\ n = Len(seq) + 1 \/ seq[n] = tok
        /\ \A m \in 1..(n - 1) : seq[m] # tok

\* the path of a URI: what stands between the host and the query
URIPath(uri) == SubSeq(uri, IndexOf(uri, "@") + 2, IndexOf(uri, "?") - 1)

\* C12: for every enumeration of tables and every connection string, Setup
\* registers exactly one resource per table, its URI is the base URL followed
\* by /<table>/schema, the URIs are pairwise distinct, and the table is a
\* segment of the URI's path right after the database part, so that two URIs
\* differ in that path segment only.
C12_OneResourcePerTable ==
    \A i \in Instances :
        spc[i] = "serving"
            => /\ Len(resources[i]) = Len(tableNames[i])
               /\ \A k \in 1..Len(resources[i]) :
                     /\ resources[i][k].uri
                           = resourceBaseURL[i] \o <<"/", tableNames[i][k], "/", schemaPath>>
                     /\ URIPath(resources[i][k].uri)
                           = <<connStr[i].path, "/", tableNames[i][k], "/", schemaPath>>
               /\ \A k, l \in 1..Len(resources[i]) :
                     k # l => resources[i][k].uri # resources[i][l].uri

\* ===========================================================================
\* Properties of SpecResource
\* ===========================================================================
\* C13: once Setup has returned, the registered resources never change: no
\* resource read and no creation, drop or change of a table by another
\* session adds, removes or alters a resource.
C13_RegistryFixedAfterSetup ==
    [][\A i \in Instances :
          spc[i] = "serving"
              => resources'[i] = resources[i] /\ tableNames'[i] = tableNames[i]]_vars

\* a server is serving, a resource has been read, a table created after the
\* enumeration is not published and a table dropped after it still is
C13_Witness ==
    \E i \in Instances :
        /\ spc[i] = "serving"
        /\ reads # <<>>
        /\ \E t \in Tables :
              catalog[DefaultSchema][t].exists /\ t \notin Range(tableNames[i])
        /\ \E k \in 1..Len(resources[i]) :
              ~catalog[DefaultSchema][resources[i][k].table].exists

\* C14: every read of the resource registered for the k-th enumerated table
\* looks up that very table, and its text holds the columns the catalog holds
\* for that table name when the read is served.
C14_ReadIsFresh ==
    [][Len(reads') > Len(reads)
          => LET r == reads'[Len(reads')]
                 t == tableNames[r.inst][r.k]
             IN /\ r.table = t
                /\ r.ok => /\ r.res.err = NoErr
                           /\ r.res.uri = resources[r.inst][r.k].uri
                           /\ r.res.text \in { MarshalIndent(SelectInto(rows)) :
                                                 rows \in ColumnRows(catalog, t) }]_vars

\* a server with two resources has served two reads of one of them, and the
\* second read shows columns the first one did not
C14_Witness ==
    \E a, b \in 1..Len(reads) :
        /\ a < b
        /\ reads[a].inst = reads[b].inst /\ reads[a].k = reads[b].k
        /\ reads[a].ok /\ reads[b].ok
        /\ reads[a].res.text # reads[b].res.text
        /\ Len(resources[reads[a].inst]) = 2

C24_DefaultSchemaColumnsOnly ==
    [][Len(reads') > Len(reads)
          => LET r == reads'[Len(reads')]
             IN r.ok => r.res.text =
                           MarshalIndent(SelectInto(catalog[DefaultSchema][r.table].columns))]_vars

\* ===========================================================================
\* Properties of SpecQuery
\* ===========================================================================
Returned(c) == qpc[c] = "done"

\* C1: every SQL text that attempts a write makes ExecuteReadOnlyQuery return
\* an error and leaves the table as it was before the call.
C1_WriteAttemptFailsTableUnchanged ==
    /\ table = InitialTable
    /\ \A c \in Calls :
          (Returned(c) /\ qarg[c].kind = "string" /\ HasWrite(qarg[c].sql))
              => execRes[c].err # NoErr

\* C2: the transaction a call begins is rolled back before the call returns
\* and is never committed; no transaction is left open by a returned call.
C2_TxRolledBackNeverCommitted ==
    \A c \in Calls :
        /\ sess[c].outcome # "committed"
        /\ Returned(c) => /\ sess[c].outcome \in {"none", "rolledback"}
                          /\ sess[c].status \in {"none", "closed"}

\* C3: the caller's SQL is sent only after SET TRANSACTION READ ONLY has been
\* sent on the same transaction and accepted; after a failed directive the
\* caller's SQL is never sent.
C3_DirectiveBeforeUserSQL ==
    \A c \in Calls :
        /\ \A i \in 1..Len(sent[c]) :
              sent[c][i].op = "query"
                  => \E j \in 1..(i - 1) : sent[c][j] = Sent("exec", SetReadOnlySQL, TRUE)
        /\ (\E j \in 1..Len(sent[c]) : sent[c][j].op = "exec" /\ ~sent[c][j].ok)
              => \A i \in 1..Len(sent[c]) : sent[c][i].op # "query"

\* a call has sent the caller's SQL, another one has seen the directive fail
C3_Witness ==
    /\ \E c \in Calls : \E i \in 1..Len(sent[c]) : sent[c][i].op = "query"
    /\ \E c \in Calls : \E i \in 1..Len(sent[c]) : sent[c][i].op = "exec" /\ ~sent[c][i].ok

\* C5: with the sql argument absent or not a string the handler answers with
\* the tool error "SQL query is required" and a nil error, and no transaction
\* is begun and no statement is sent.
C5_MissingSQLNoRoundTrip ==
    \A c \in Calls :
        (qpc[c] # "idle" /\ qarg[c].kind # "string")
            => /\ Returned(c)
               /\ toolRes[c].ret /\ toolRes[c].isError
               /\ toolRes[c].text = <<"SQL query is required">>
               /\ toolRes[c].handlerErr = NoErr
               /\ sent[c] = <<>>
               /\ sess[c].status = "none"
               /\ ~execRes[c].ret

\* one call came without the argument, one with a number in its place
C5_Witness ==
    /\ \E c \in Calls : Returned(c) /\ qarg[c].kind = "absent"
    /\ \E c \in Calls : Returned(c) /\ qarg[c].kind = "number"

\* C6: an error of ExecuteReadOnlyQuery reaches the client as a tool error
\* that carries the error's message, with a nil handler error, never as a
\* successful result.
C6_ExecutorErrorIsToolError ==
    \A c \in Calls :
        (execRes[c].ret /\ execRes[c].err # NoErr)
            => /\ Returned(c)
               /\ toolRes[c].ret /\ toolRes[c].isError
               /\ toolRes[c].handlerErr = NoErr
               /\ toolRes[c].text = <<"Failed to execute query", ": ">> \o execRes[c].err

\* the engine refused a write and the handler has answered
C6_Witness ==
    \E c \in Calls :
        /\ Returned(c) /\ execRes[c].ret
        /\ execRes[c].err = <<"failed to execute query", ": ",
                               "cannot execute DELETE in a read-only transaction">>

\* every step of ExecuteReadOnlyQuery has been taken and has succeeded: begin,
\* the directive, the query, one scan per row, the iteration, the rollback
AllSucceeded(c) ==
    steps[c] = <<Step("begin", TRUE), Step("directive", TRUE), Step("query", TRUE)>>
               \o [i \in 1..Len(fetched[c].rows) |-> Step("scan", TRUE)]
               \o <<Step("iterate", TRUE), Step("rollback", TRUE)>>

Owners == {sseClients[id] : id \in Registered}

\* the subscription of connection h is open: handleSSE is serving it
Open(h) == hpc[h] \in {"start", "hello", "select", "write", "ping"}

\* C7: while broadcastSSE ranges over the registry it never waits for a
\* subscriber: the send to every remaining entry can be attempted at once
\* whatever that subscriber is doing, and the call can return when none
\* remains; every subscriber that was receiving when its entry was visited has
\* been handed the message, whether or not another one was skipped.
C7_BroadcastNeverWaits ==
    \A b \in Bcasters :
        /\ (Alive /\ bpc[b] = "range")
              => /\ \A id \in btodo[b] : ENABLED BroadcastSend(b, id)
                 /\ btodo[b] = {} => ENABLED BroadcastReturn(b)
                 /\ bsent[b] \cup bskip[b] \cup {sseClients[id] : id \in btodo[b]} = Owners
        /\ bparked[b] = bsent[b]
        /\ bsent[b] \cap bskip[b] = {}
        /\ \A h \in bsent[b] :
              inbox[h] = bmsg[b] \/ \E i \in 1..Len(written[h]) : written[h][i] = Data(bmsg[b])

\* a broadcast to two subscribers is over: one was not receiving and was
\* skipped, the other one got the message
C7_Witness ==
    \E b \in Bcasters :
        /\ bpc[b] = "range" /\ btodo[b] = {}
        /\ \E h, g \in Conns : h # g /\ h \in bskip[b] /\ g \in bsent[b]
                                /\ inbox[g] = bmsg[b]

C9_ChannelClosedOnce ==
    \A h \in Conns :
        /\ chanCloses[h] <= 1
        /\ hpc[h] # "panicked"
        /\ hpc[h] = "exited" => chanCloses[h] = 1 /\ h \notin Owners

\* C10: once Close has returned the listener accepts no connection and no
\* event-stream subscription is open.
C10_AfterCloseNothingOpen ==
    mainPc = "closed" => ~Listening /\ \A h \in Conns : ~Open(h)


\* C11: on every path by which the process terminates after server.New
\* (Setup failure, HTTP listener failure, error of Serve, return of Serve)
\* the database connection has been closed exactly once before the exit.
C11_DBClosedOnceBeforeExit ==
    mainPc = "exited" => dbCloses = 1


\* C18: the registry is changed and ranged over only by the holder of
\* sseClientsMux, and a channel is closed only in a critical section that
\* leaves it out of the registry; so broadcastSSE never sends on a closed
\* channel and the registry holds no closed channel while the lock is free.
C18_RegistryUnderLock ==
    /\ [](/\ \A b \in Bcasters :
               /\ bpc[b] = "range" => mux = ByBcast(b)
               /\ bpc[b] # "panicked"
               /\ \A id \in btodo[b] :
                     id \in Registered /\ chanCloses[sseClients[id]] = 0
          /\ mux = Free => \A id \in Registered : chanCloses[sseClients[id]] = 0)
    /\ [][/\ sseClients' # sseClients => mux = Free
          /\ \A h \in Conns :
                chanCloses'[h] # chanCloses[h]
                    => mux = Free /\ \A id \in IDs : sseClients'[id] # h]_vars

\* a broadcast is ranging over a registered subscriber while the channel of
\* another connection has been closed and removed
C18_Witness ==
    \E b \in Bcasters, h \in Conns :
        /\ bpc[b] = "range" /\ btodo[b] # {}
        /\ chanCloses[h] = 1 /\ hpc[h] = "exited"

\* C19: while the server is serving, every connection that has registered and
\* is still open has its own entry in the registry: its client ID maps to its
\* own channel, whatever other connections registered or deregistered.
C19_OwnEntryPerConnection ==
    \A h \in Conns :
        (hpc[h] \in {"hello", "select", "write", "ping"} /\ closeLog = <<>>)
            => sseClients[hid[h]] = h

\* C21: every event written to a connection is the connected event of that
\* connection, a message that was passed to broadcastSSE, or a keep-alive
\* comment; and once Close has closed the channel of a connection its serving
\* task starts no further write: from the select it neither takes a message
\* nor sends a keep-alive again.
C21_SubscriberLifeCycle ==
    /\ [](\A h \in Conns : \A i \in 1..Len(written[h]) :
             \/ written[h][i] = Connected(hid[h])
             \/ written[h][i] = KeepAlive
             \/ \E m \in 1..(nextMsg - 1) : written[h][i] = Data(ResponseJSON(m)))
    /\ [][\A h \in swept :
             hpc[h] = "select" => hpc'[h] \notin {"write", "ping"}]_vars


\* ===========================================================================
\* Properties of SpecHTTP
\* ===========================================================================
\* C16: the /mcp handler hands a request to the MCP server only if its method
\* is POST and its body decodes; a body that does not decode is answered with
\* 400 and another method with 405, and such a request reaches neither the
\* database nor broadcastSSE: it changes nothing in the transport.
C16_OnlyDecodedPostsDispatched ==
    /\ [](\A b \in Bcasters :
             LET p == post[b]
             IN /\ p.dispatched => p.method = "POST" /\ p.body \notin {"garbage", "array"}
                /\ (p.status # 0 /\ p.method # "POST") => p.status = 405
                /\ (p.method = "POST" /\ p.body \in {"garbage", "array"}) => p.status = 400
                /\ p.status \in {400, 405}
                      => ~p.dispatched /\ ~p.dbOp /\ p.inline.json = 0 /\ bpc[b] = "idle"
                /\ p.dbOp => p.dispatched
                /\ bpc[b] # "idle" => p.dispatched)
    /\ [][rejects' # rejects => UNCHANGED sseVars]_vars

\* a body that does not decode has been answered with 400 after another
\* request had been answered and a subscriber had registered
C16_Witness ==
    \E b \in Bcasters, h \in Conns :
        /\ post[b].status = 400 /\ post[b].method = "POST"
        /\ rejects = 1
        /\ nextMsg > 1
        /\ hid[h] # 0

\* C17: the response of a dispatched POST is written inline and that same
\* response, and nothing else, is then handed to broadcastSSE by one call; no
\* subscriber is handed it twice; a response written to the stdio channel is
\* never broadcast.
C17_InlineThenBroadcastOnce ==
    /\ [](/\ \A b \in Bcasters :
               /\ post[b].dispatched
                     => /\ post[b].status = 200
                        /\ post[b].inline = [json |-> bmsg[b], newline |-> TRUE]
                        /\ bmsg[b] \in 1..(nextMsg - 1)
               /\ bpc[b] # "idle" => post[b].dispatched
          /\ \A h \in Conns : \A m \in 1..MaxMsgs :
                Cardinality({i \in 1..Len(written[h]) : written[h][i] = Data(m)})
                    + (IF inbox[h] = m THEN 1 ELSE 0) <= 1
          /\ \A m \in Range(stdioOut) :
                /\ \A b \in Bcasters : bmsg[b] # m
                /\ \A h \in Conns : inbox[h] # m /\ Data(m) \notin Range(written[h]))
    /\ [][\A b \in Bcasters :
             /\ (post'[b] # post[b] /\ post'[b].dispatched)
                   => bpc[b] = "idle" /\ bpc'[b] = "lock"
             /\ (bpc[b] = "idle" /\ bpc'[b] # "idle")
                   => post'[b].dispatched /\ post'[b].inline.json = nextMsg]_vars

\* a request came over stdio and one over HTTP; the response of the latter
\* was written inline and has reached a subscriber
C17_Witness ==
    \E b \in Bcasters, h \in Conns :
        /\ stdioOut # <<>>
        /\ post[b].dispatched /\ post[b].dbOp
        /\ bpc[b] = "idle"
        /\ Data(post[b].inline.json) \in Range(written[h])

\* C20: the first event written on a connection is the connected event with
\* the connection's client ID, no later event is one, and no message whose
\* broadcast had taken place when the connection registered is ever handed
\* to it or written on it.
C20_HelloFirstNoReplay ==
    \A h \in Conns :
        /\ written[h] # <<>>
              => /\ hid[h] # 0
                 /\ written[h][1] = [kind |-> "connected", v |-> hid[h]]
        /\ \A i \in 2..Len(written[h]) : written[h][i].kind # "connected"
        /\ (inbox[h] # 0 \/ hpc[h] \in {"write", "ping"}) => written[h] # <<>>
        /\ \A m \in missed[h] : inbox[h] # m /\ Data(m) \notin Range(written[h])

\* a connection that registered after the first broadcast has received the
\* second one
C20_Witness ==
    \E h \in Conns :
        /\ missed[h] = {1}
        /\ Data(2) \in Range(written[h])


\* ===========================================================================
\* Properties of SpecTools
\* ===========================================================================
\* C22: when GetTableNames fails inside the list_tables handler the failure
\* reaches the client: the handler returns a result marked as a tool error
\* (or at least an error), never a nil result with a nil error and never a
\* result that is not marked as an error.
C22_LookupFailureSurfaced ==
    \A n \in 1..Len(listed) :
        listed[n].lookup.err # NoErr
            => \/ listed[n].ret.err # NoErr
               \/ /\ listed[n].ret.result # Nil
                  /\ listed[n].ret.result[1].isError


\* ===========================================================================
\* Properties of SpecOrder
\* ===========================================================================
\* the broadcast messages delivered to connection h, in order: those written
\* on it, then the one it has received and not yet written
RECURSIVE MessagesOf(_, _)
MessagesOf(events, i) ==
    IF i > Len(events) THEN <<>>
    ELSE (IF events[i].kind = "data" /\ events[i].v # 0 THEN <<events[i].v>> ELSE <<>>)
         \o MessagesOf(events, i + 1)

Delivered(h) == MessagesOf(written[h], 1) \o (IF inbox[h] # 0 THEN <<inbox[h]>> ELSE <<>>)

\* the place of message m in the order of the lock acquisitions (0: none)
LockRank(m) ==
    IF m \in Range(lockOrder)
    THEN CHOOSE i \in 1..Len(lockOrder) : lockOrder[i] = m
    ELSE 0

\* C25: for every subscriber, the broadcast messages delivered to it form a
\* subsequence of the order in which the broadcastSSE calls took the lock:
\* each one comes from a call that has taken the lock, none is delivered
\* twice, and none is delivered before one whose call took the lock earlier.
C25_DeliveryFollowsLockOrder ==
    \A h \in Conns :
        LET d == Delivered(h)
        IN /\ \A i \in 1..Len(d) : LockRank(d[i]) > 0
           /\ \A i, j \in 1..Len(d) : i < j => LockRank(d[i]) < LockRank(d[j])

\* two calls of broadcastSSE were in progress at once, the one that was made
\* second took the lock first, and a subscriber has been delivered both
\* messages
C25_Witness ==
    \E h \in Conns :
        /\ lockOrder = <<2, 1>>
        /\ MessagesOf(written[h], 1) = <<2, 1>>

====
